---- MODULE Spec2Model ----
(***************************************************************************)
(* Model of the FVG trading bot's orchestrator (src/src/main.rs), its risk *)
(* and position manager (src/src/position_manager.rs) and the REST calls   *)
(* it makes (src/src/bybit_api.rs).                                        *)
(*                                                                         *)
(* Units.  Prices are integers counting 0.1 USDT.  Quantities count tenths *)
(* of a contract, so qty_step 0.1 is 1 and qty_step 1.0 is 10.  Money      *)
(* (balance, PnL, risk, notional) is price * quantity, i.e. 0.01 USDT:     *)
(* ACCOUNT_BALANCE 10_000.0 is 1000000.  Percentages are kept as integer   *)
(* percents and applied by cross-multiplying with 100.  Time is counted in *)
(* 4 h candles (14400 s).                                                  *)
(***************************************************************************)
EXTENDS Integers, Sequences, FiniteSets, TLC

VARIABLES
    pc,          \* position of the orchestrator task in main()
    idx,         \* index of the symbol loop "for symbol in &trading_pairs"
    positions,   \* HashMap<String, OpenPosition>
    metrics,     \* RiskMetrics
    pending,     \* pending_orders of the current cycle
    now,         \* chrono::Utc::now(), in 4 h units
    cycles,      \* number of loop iterations started
    ev,          \* what the last step did (calls made, inputs read)
    candle_buf,  \* one VecDeque<Candle> of the CandleStore (one "SYMBOL_TF" key)
    prefetch,    \* the prefetch task of that key: its position and its klines
    rest,        \* one REST operation of BybitClient in progress
    feed,        \* the feed task: reconnect_with_backoff and its session
    lock,        \* the task that holds the mutex of the candle map, or "none"
    alerts       \* risk alerts sent since the last daily reset

vars == <<pc, idx, positions, metrics, pending, now, cycles, ev,
          candle_buf, prefetch, rest, feed, lock, alerts>>

----------------------------------------------------------------------------
\* Bounds of the model

MaxCycles == 1

----------------------------------------------------------------------------
\* Program constants (src/src/config.rs, src/src/position_manager.rs)

MAX_OPEN_POSITIONS == 2
MAX_DAILY_LOSS_PCT == 5
MAX_RISK_PER_TRADE_PCT == 1
EQUITY_FLOOR_PCT == 90
ACCOUNT_BALANCE == 10000 * 100
MIN_ORDER_NOTIONAL == 100 * 100

\* The pair list main() ends up with: two symbols, sorted as fetch_linear_symbols
\* returns them
trading_pairs == <<"SOLUSDT", "XRPUSDT">>

Symbols == {trading_pairs[i] : i \in 1..Len(trading_pairs)}

\* The symbols /v5/position/list may report: the request is not restricted to
\* trading_pairs (settleCoin=USDT, any instrument status), so one symbol that the
\* loop never visits is included
ExchangeSymbols == Symbols \cup {"OTHERUSDT"}

\* sl_atr_mult and tp_mult in tenths, time_stop in 4 h candles, qty_step in
\* tenths of a contract, min_gap_pct in thousandths, min_vol_mult in tenths,
\* fvg_lookback in candles
symbol_params(symbol) ==
    CASE symbol = "XRPUSDT" ->
           [sl_atr_mult |-> 20, tp_mult |-> 15, time_stop |-> 14, qty_step |-> 10,
            min_gap_pct |-> 8, min_vol_mult |-> 10, fvg_lookback |-> 8]
      [] symbol = "SOLUSDT" ->
           [sl_atr_mult |-> 15, tp_mult |-> 40, time_stop |-> 7, qty_step |-> 1,
            min_gap_pct |-> 8, min_vol_mult |-> 12, fvg_lookback |-> 12]
      [] OTHER ->
           [sl_atr_mult |-> 10, tp_mult |-> 20, time_stop |-> 7, qty_step |-> 10,
            min_gap_pct |-> 3, min_vol_mult |-> 12, fvg_lookback |-> 8]

\* p.tick_size: the price grid of the exchange, the same for the modelled pairs
tick_size(symbol) == 20

----------------------------------------------------------------------------
\* Input domains

Sides == {"Buy", "Sell"}

\* closes of the latest entry-timeframe candle (on the tick grid)
Prices == {980, 1000, 1020}

\* latest entry-timeframe candle: low <= close <= high
Candles ==
    {[low |-> c - w[1], high |-> c + w[2], close |-> c] :
        c \in Prices, w \in {<<0, 0>>, <<20, 0>>, <<0, 20>>}}

\* buffer lengths around the thresholds of 20 and 21 candles
CandleCounts == {19, 20, 21}

\* lengths of the entry-timeframe buffer around its threshold of 20 candles
EntryCounts == {19, 20}

\* Option<BollingerBands> of the 4 h candles (middle +- 2 sigma, off the grid)
NoBB == [some |-> FALSE]

BBs == {[some |-> TRUE, lower |-> 990, middle |-> 1030, upper |-> 1070],
        [some |-> TRUE, lower |-> 950, middle |-> 970, upper |-> 1030]}

ATRs == {0, 20}

\* entries of GET /v5/position/list: positions the exchange may hold, opened by
\* the bot before a restart or by hand
ExchInfos ==
    {[side |-> "Sell", size |-> 2500, avg_price |-> 1000, stop_loss |-> 1020,
      take_profit |-> 980, created_time |-> 0],
     [side |-> "Buy",  size |-> 6000, avg_price |-> 1000, stop_loss |-> 0,
      take_profit |-> 0, created_time |-> -8]}

\* time that passes during the 60 s sleep and any number of idle cycles
SleepAdvance == {0, 8}

----------------------------------------------------------------------------
\* HashMap helpers

EmptyMap == [x \in {} |-> TRUE]

MapInsert(map, k, v) == [x \in (DOMAIN map) \cup {k} |-> IF x = k THEN v ELSE map[x]]

MapRemove(map, k) == [x \in (DOMAIN map) \ {k} |-> map[x]]

Abs(x) == IF x < 0 THEN 0 - x ELSE x

Min(a, b) == IF a < b THEN a ELSE b

Max(a, b) == IF a < b THEN b ELSE a

\* f64::round of num/den for den > 0: half away from zero
RoundDiv(num, den) ==
    IF num >= 0 THEN (2 * num + den) \div (2 * den)
    ELSE 0 - ((2 * (0 - num) + den) \div (2 * den))

----------------------------------------------------------------------------
\* RiskMetrics

max_daily_loss == (ACCOUNT_BALANCE * MAX_DAILY_LOSS_PCT) \div 100

max_risk_per_trade == (ACCOUNT_BALANCE * MAX_RISK_PER_TRADE_PCT) \div 100

InitMetrics ==
    [account_balance |-> ACCOUNT_BALANCE,
     current_equity  |-> ACCOUNT_BALANCE,
     daily_pnl       |-> 0,
     trading_enabled |-> TRUE,
     trades_today    |-> 0,
     wins_today      |-> 0]

----------------------------------------------------------------------------
\* position_manager.rs

\* the quantity is rounded up to the step instead of down
calculate_position_size_ceil(signal, m, p) ==
    LET max_risk100 == m.account_balance * MAX_RISK_PER_TRADE_PCT
        remaining_daily_budget == Max(max_daily_loss - Abs(m.daily_pnl), 0)
        actual_max_risk100 == Min(max_risk100, remaining_daily_budget * 100)
        risk_per_unit == Abs(signal.entry_price - signal.stop_loss)
        den == 100 * risk_per_unit * p.qty_step
    IN  IF risk_per_unit > 0
        THEN (0 - ((0 - actual_max_risk100) \div den)) * p.qty_step
        ELSE 0

\* floor(min(balance * 1 %, remaining budget) / risk_per_unit / qty_step) * qty_step
calculate_position_size(signal, m, p) ==
    LET max_risk100 == m.account_balance * MAX_RISK_PER_TRADE_PCT
        remaining_daily_budget == Max(max_daily_loss - Abs(m.daily_pnl), 0)
        actual_max_risk100 == Min(max_risk100, remaining_daily_budget * 100)
        risk_per_unit == Abs(signal.entry_price - signal.stop_loss)
    IN  IF risk_per_unit > 0
        THEN (actual_max_risk100 \div (100 * risk_per_unit * p.qty_step)) * p.qty_step
        ELSE 0

validate_trade(signal, m) ==
    IF signal.position_size <= 0 THEN "zero size"
    ELSE IF signal.position_size * signal.entry_price < MIN_ORDER_NOTIONAL
         THEN "notional below minimum"
    ELSE IF ~m.trading_enabled THEN "trading disabled"
    ELSE IF m.current_equity * 100 < m.account_balance * 90
         THEN "equity below floor"
    ELSE IF signal.risk_amount > max_risk_per_trade THEN "risk exceeds max"
    ELSE IF signal.risk_amount > max_daily_loss - Abs(m.daily_pnl)
         THEN "insufficient daily budget"
    ELSE IF signal.fvg_type = "Bullish" /\ signal.stop_loss >= signal.entry_price
         THEN "SL must be below entry"
    ELSE IF signal.fvg_type = "Bullish" /\ signal.take_profit_1 <= signal.entry_price
         THEN "TP must be above entry"
    ELSE IF signal.fvg_type = "Bearish" /\ signal.stop_loss <= signal.entry_price
         THEN "SL must be above entry"
    ELSE IF signal.fvg_type = "Bearish" /\ signal.take_profit_1 >= signal.entry_price
         THEN "TP must be below entry"
    ELSE "ok"

set_stop_loss(signal, atr, p, bb) ==
    LET sl == IF signal.fvg_type = "Bullish"
              THEN IF bb.some THEN bb.lower
                   ELSE signal.zone_low - (atr * p.sl_atr_mult) \div 10
              ELSE IF bb.some THEN bb.upper
                   ELSE signal.zone_high + (atr * p.sl_atr_mult) \div 10
    IN  [signal EXCEPT
          !.stop_loss = sl,
          !.risk_amount = IF signal.fvg_type = "Bullish"
                          THEN (signal.entry_price - sl) * signal.position_size
                          ELSE (sl - signal.entry_price) * signal.position_size]

\* a short targets the lower band
calculate_take_profits_short_lower(signal, p, bb) ==
    LET risk == Abs(signal.entry_price - signal.stop_loss)
        up == signal.fvg_type = "Bullish"
    IN  [signal EXCEPT
          !.take_profit_1 =
             IF bb.some THEN (IF up THEN bb.middle ELSE bb.lower)
             ELSE IF up THEN signal.entry_price + (risk * p.tp_mult) \div 10
                        ELSE signal.entry_price - (risk * p.tp_mult) \div 10,
          !.take_profit_2 =
             IF bb.some THEN (IF up THEN bb.upper ELSE bb.lower)
             ELSE IF up THEN signal.entry_price + (risk * p.tp_mult * 15) \div 100
                        ELSE signal.entry_price - (risk * p.tp_mult * 15) \div 100]

calculate_take_profits(signal, p, bb) ==
    LET risk == Abs(signal.entry_price - signal.stop_loss)
        up == signal.fvg_type = "Bullish"
    IN  [signal EXCEPT
          !.take_profit_1 =
             IF bb.some THEN bb.middle
             ELSE IF up THEN signal.entry_price + (risk * p.tp_mult) \div 10
                        ELSE signal.entry_price - (risk * p.tp_mult) \div 10,
          !.take_profit_2 =
             IF bb.some THEN (IF up THEN bb.upper ELSE bb.lower)
             ELSE IF up THEN signal.entry_price + (risk * p.tp_mult * 15) \div 100
                        ELSE signal.entry_price - (risk * p.tp_mult * 15) \div 100]

\* max_favorable_excursion is written here and read nowhere; it is left out.
\* mark_price is a history field, not a field of OpenPosition: the price of the
\* last update (the entry price before the first one); no step reads it.
update_position_pnl(position, current_price) ==
    [position EXCEPT
        !.unrealized_pnl = (current_price - position.entry_price) * position.position_size,
        !.mark_price = current_price]

----------------------------------------------------------------------------
\* bybit_api.rs: what the orchestrator sees of the REST calls

\* The exchange is outside the program: positions are opened and closed there
\* by hand and by the stop-loss / take-profit attached to the orders, so what a
\* fetch returns is an input of the step that fetches.

\* the maps get_all_open_positions may return: symbols with size > 0
ExchangePositions == UNION {[D -> ExchInfos] : D \in SUBSET ExchangeSymbols}

\* a failed fetch counts as a full exchange
count_open_exchange_positions_full(fetchOk, exchange_pos) ==
    IF fetchOk THEN Cardinality(exchange_pos) ELSE MAX_OPEN_POSITIONS

\* map.len(), and 0 when the fetch fails
count_open_exchange_positions(fetchOk, exchange_pos) ==
    IF fetchOk THEN Cardinality(exchange_pos) ELSE 0

----------------------------------------------------------------------------
\* main.rs helpers

multiplier(side) == IF side = "Buy" THEN 1 ELSE -1

\* a break-even close is counted as a win
close_position_local_ge(pos, symbol, m, exit_price) ==
    IF symbol \in DOMAIN pos
    THEN LET op == pos[symbol]
             pnl == (exit_price - op.entry_price) * op.position_size * multiplier(op.side)
         IN  [positions |-> MapRemove(pos, symbol),
              metrics |-> [m EXCEPT
                  !.account_balance = @ + pnl,
                  !.current_equity = m.account_balance + pnl,
                  !.daily_pnl = @ + pnl,
                  !.wins_today = IF pnl >= 0 THEN @ + 1 ELSE @]]
    ELSE [positions |-> pos, metrics |-> m]

\* actual_entry is None or equal to entry_price and actual_exit is always None
\* (they are only written by the private feed, which is compiled out)
close_position_local(pos, symbol, m, exit_price) ==
    IF symbol \in DOMAIN pos
    THEN LET op == pos[symbol]
             pnl == (exit_price - op.entry_price) * op.position_size * multiplier(op.side)
         IN  [positions |-> MapRemove(pos, symbol),
              metrics |-> [m EXCEPT
                  !.account_balance = @ + pnl,
                  !.current_equity = m.account_balance + pnl,
                  !.daily_pnl = @ + pnl,
                  !.wins_today = IF pnl > 0 THEN @ + 1 ELSE @]]
    ELSE [positions |-> pos, metrics |-> m]

create_position(signal, side) ==
    [side |-> side,
     entry_price |-> signal.entry_price,
     entry_time |-> signal.timestamp,
     position_size |-> signal.position_size,
     stop_loss |-> signal.stop_loss,
     take_profit_1 |-> signal.take_profit_1,
     take_profit_2 |-> signal.take_profit_2,
     unrealized_pnl |-> 0,
     risk_amount |-> signal.risk_amount,
     mark_price |-> signal.entry_price]

\* the stop and the target of the exchange are ignored
orphan_to_open_position_synth(info) ==
    LET sl == IF info.side = "Buy" THEN (info.avg_price * 95) \div 100
              ELSE (info.avg_price * 105) \div 100
        tp == IF info.side = "Buy" THEN (info.avg_price * 110) \div 100
              ELSE (info.avg_price * 90) \div 100
    IN  [side |-> info.side,
         entry_price |-> info.avg_price,
         entry_time |-> info.created_time,
         position_size |-> info.size,
         stop_loss |-> sl,
         take_profit_1 |-> tp,
         take_profit_2 |-> tp,
         unrealized_pnl |-> 0,
         risk_amount |-> 0,
         mark_price |-> info.avg_price]

\* main.rs 724-762
orphan_to_open_position(info) ==
    LET sl == IF info.stop_loss > 0 THEN info.stop_loss
              ELSE IF info.side = "Buy" THEN (info.avg_price * 95) \div 100
                   ELSE (info.avg_price * 105) \div 100
        tp == IF info.take_profit > 0 THEN info.take_profit
              ELSE IF info.side = "Buy" THEN (info.avg_price * 110) \div 100
                   ELSE (info.avg_price * 90) \div 100
    IN  [side |-> info.side,
         entry_price |-> info.avg_price,
         entry_time |-> info.created_time,
         position_size |-> info.size,
         stop_loss |-> sl,
         take_profit_1 |-> tp,
         take_profit_2 |-> tp,
         unrealized_pnl |-> 0,
         risk_amount |-> 0,
         mark_price |-> info.avg_price]

\* sizes are in tenths of a contract: 0.001 is below the model's resolution,
\* so any difference is a mismatch
reconcile_positions(local, fetchOk, exchange_positions) ==
    IF ~fetchOk THEN local
    ELSE [symbol \in DOMAIN exchange_positions |->
            IF symbol \in DOMAIN local
            THEN [local[symbol] EXCEPT
                    !.position_size =
                        IF Abs(@ - exchange_positions[symbol].size) > 0
                        THEN exchange_positions[symbol].size ELSE @]
            ELSE orphan_to_open_position(exchange_positions[symbol])]

build_signal(fvg, current_price, ts) ==
    [fvg_type |-> fvg.fvg_type,
     zone_low |-> fvg.zone_low,
     zone_high |-> fvg.zone_high,
     entry_price |-> current_price,
     stop_loss |-> 0,
     take_profit_1 |-> 0,
     take_profit_2 |-> 0,
     position_size |-> 0,
     risk_amount |-> 0,
     timestamp |-> ts]

\* (x / tick).round() * tick, skipped when tick is 0
round_to_tick(signal, tick) ==
    IF tick > 0
    THEN [signal EXCEPT
            !.stop_loss = RoundDiv(@, tick) * tick,
            !.take_profit_1 = RoundDiv(@, tick) * tick,
            !.take_profit_2 = RoundDiv(@, tick) * tick]
    ELSE signal

\* main.rs 421-423: the signal with its stop and targets, before rounding
raw_signal(fvg, current_price, atr, bb, p, ts) ==
    LET s0 == build_signal(fvg, current_price, ts)
        s1 == set_stop_loss(s0, atr, p, bb)
    IN  calculate_take_profits(s1, p, bb)

\* the quantity is computed before the prices are rounded
signal_pipeline_size_first(fvg, current_price, atr, bb, m, p, tick, ts) ==
    LET s2 == raw_signal(fvg, current_price, atr, bb, p, ts)
        s3 == [s2 EXCEPT !.position_size = calculate_position_size(s2, m, p)]
        s4 == round_to_tick(s3, tick)
    IN  [s4 EXCEPT !.risk_amount = Abs(s4.entry_price - s4.stop_loss) * s4.position_size]

\* main.rs 421-439: SL, TPs, tick rounding, sizing, risk_amount
signal_pipeline(fvg, current_price, atr, bb, m, p, tick, ts) ==
    LET s2 == raw_signal(fvg, current_price, atr, bb, p, ts)
        s3 == round_to_tick(s2, tick)
        s4 == [s3 EXCEPT !.position_size = calculate_position_size(s3, m, p)]
    IN  [s4 EXCEPT !.risk_amount = Abs(s4.entry_price - s4.stop_loss) * s4.position_size]

\* main.rs 421-439 with the parameters of the symbol
sized_signal(symbol, fvg, current_price, atr, bb, m, ts) ==
    signal_pipeline(fvg, current_price, atr, bb, m, symbol_params(symbol),
                    tick_size(symbol), ts)

tp_ok(side, sig) ==
    IF side = "Buy"
    THEN sig.take_profit_1 > sig.entry_price /\ sig.stop_loss < sig.entry_price
    ELSE sig.take_profit_1 < sig.entry_price /\ sig.stop_loss > sig.entry_price

\* neither the guard nor validate_trade looks at the direction
entry_accepted_unguarded(side, sig, m) ==
    sig.position_size > 0 /\ m.trading_enabled

\* main.rs 466-489: the signal is pushed when the guard and validate_trade pass
entry_accepted(side, sig, m) ==
    tp_ok(side, sig) /\ validate_trade(sig, m) = "ok"

\* the time stop is looked at before the price levels
close_reason_time_first(op, p, current_price, now_ts) ==
    LET sl_hit == \/ (op.side = "Buy" /\ current_price <= op.stop_loss)
                  \/ (op.side = "Sell" /\ current_price >= op.stop_loss)
        tp1_hit == \/ (op.side = "Buy" /\ current_price >= op.take_profit_1)
                   \/ (op.side = "Sell" /\ current_price <= op.take_profit_1)
        time_stop == (now_ts - op.entry_time) > p.time_stop
    IN  IF time_stop THEN "Time stop (28 h)"
        ELSE IF sl_hit THEN "Stop-loss hit"
        ELSE IF tp1_hit THEN "TP1 reached"
        ELSE "None"

\* main.rs 285-303
close_reason(op, p, current_price, now_ts) ==
    LET sl_hit == \/ (op.side = "Buy" /\ current_price <= op.stop_loss)
                  \/ (op.side = "Sell" /\ current_price >= op.stop_loss)
        tp1_hit == \/ (op.side = "Buy" /\ current_price >= op.take_profit_1)
                   \/ (op.side = "Sell" /\ current_price <= op.take_profit_1)
        time_stop == (now_ts - op.entry_time) > p.time_stop
    IN  IF sl_hit THEN "Stop-loss hit"
        ELSE IF tp1_hit THEN "TP1 reached"
        ELSE IF time_stop THEN "Time stop (28 h)"
        ELSE "None"

----------------------------------------------------------------------------
\* Detector results read by the orchestrator.  A returned zone has
\* zone_low < zone_high and the current close strictly beyond it
\* (fvg_detector.rs 226-228 and 280-282).

NoFvg == [some |-> FALSE]

\* the fields of an FVGZone that sizing does not read
NoFvgZone == [fvg_type |-> "Bullish", zone_low |-> 0, zone_high |-> 0]

detect_bullish_fvg(close) ==
    {NoFvg, [some |-> TRUE, fvg_type |-> "Bullish",
             zone_low |-> close - 40, zone_high |-> close - 20]}

detect_bearish_fvg(close) ==
    {NoFvg, [some |-> TRUE, fvg_type |-> "Bearish",
             zone_low |-> close + 20, zone_high |-> close + 40]}

check_fvg_breakout(fvg, close, volume_ok) ==
    IF fvg.fvg_type = "Bullish"
    THEN close > fvg.zone_high /\ volume_ok
    ELSE close < fvg.zone_low /\ volume_ok

\* None while the slice holds fewer than `period` (20) candles
bollinger_bands(n) == IF n < 20 THEN {NoBB} ELSE BBs

----------------------------------------------------------------------------
\* The record of a step

NoCandle == [low |-> 0, high |-> 0, close |-> 0]

NoEv ==
    [op |-> "init", sym |-> "", fetches |-> 0, fetchOk |-> FALSE,
     candle |-> NoCandle, confirmed |-> FALSE, had |-> FALSE, side |-> "", stop_loss |-> 0,
     take_profit_1 |-> 0, reason |-> "None", closeCalled |-> FALSE,
     closeOk |-> FALSE, pnl |-> 0, exchange_open |-> 0, calls |-> <<>>,
     okSyms |-> {}, reported |-> {}, reset |-> FALSE, alert |-> FALSE,
     notified |-> {}, infos |-> EmptyMap, gated |-> FALSE, bb |-> NoBB]

\* the prefetch task of main.rs 98-137 before it has run
NoPrefetch == [pc |-> "pending", klines |-> <<>>]

\* main.rs 90: reconnect_with_backoff(&ws_client, 20, 5)
WS_MAX_RETRIES == 20

WS_INITIAL_DELAY_SECS == 5

\* websocket_handler.rs 200: delay = (delay * 2).min(300)
MAX_RECONNECT_DELAY == 300

\* the feed task when it is spawned (main.rs 89-90): reconnect_with_backoff
\* starts with retries = 0 and delay = WS_INITIAL_DELAY_SECS.  connects counts the
\* calls of connect(), slept lists the waits, reason is why the last session
\* ended.
NoFeed ==
    [pc |-> "connect", retries |-> 0, delay |-> WS_INITIAL_DELAY_SECS, connects |-> 0,
     slept |-> <<>>, reason |-> "none"]

\* no response received yet
NoResp == [kind |-> "none", ret_code |-> 0, http_status |-> 0]

\* no REST operation in progress; with_retry starts with retries = 0, delay = 1.
\* calls counts the requests sent, slept lists the sleeps, resp and outcome are
\* the last response and what the raw call made of it, error is what the
\* operation returned to its caller, served counts the requests the exchange
\* carried out.
NoRest ==
    [op |-> "", status |-> "idle", retries |-> 0, delay |-> 1, calls |-> 0,
     slept |-> <<>>, resp |-> NoResp, outcome |-> "None", error |-> "None",
     served |-> 0]

----------------------------------------------------------------------------
\* Initial state: main() up to the call of reconcile_positions (lines 71-96)

Init ==
    /\ pc = "reconcile"
    /\ idx = 1
    /\ positions = EmptyMap
    /\ metrics = InitMetrics
    /\ pending = <<>>
    /\ now = 0
    /\ cycles = 0
    /\ ev = NoEv
    /\ candle_buf = <<>>
    /\ prefetch = NoPrefetch
    /\ rest = NoRest
    /\ feed = NoFeed
    /\ lock = "none"
    /\ alerts = 0

\* main.rs 96: startup reconciliation (one get_all_open_positions call)
Reconcile ==
    /\ pc = "reconcile"
    /\ \E fetchOk \in BOOLEAN, exchange_positions \in ExchangePositions :
         /\ fetchOk \/ exchange_positions = EmptyMap
         /\ positions' = reconcile_positions(positions, fetchOk, exchange_positions)
         /\ ev' = [NoEv EXCEPT !.op = "reconcile", !.fetches = 1, !.fetchOk = fetchOk,
                               !.reported = DOMAIN exchange_positions,
                               !.infos = exchange_positions]
    /\ pc' = "start"
    /\ UNCHANGED <<idx, metrics, pending, now, cycles, candle_buf, prefetch, rest, feed, lock, alerts>>

\* close_position_local for every manually closed symbol, with the exit price
\* derived from the last unrealized_pnl (main.rs 214-240)
RECURSIVE CloseManually(_, _, _)
CloseManually(pos, m, syms) ==
    IF syms = {} THEN [positions |-> pos, metrics |-> m]
    ELSE LET sym == CHOOSE x \in syms : TRUE
             op == pos[sym]
             exit_price == IF op.position_size > 0
                           THEN op.entry_price
                                + (op.unrealized_pnl \div op.position_size)
                                  * multiplier(op.side)
                           ELSE op.entry_price
             r == close_position_local(pos, sym, m, exit_price)
         IN  CloseManually(r.positions, r.metrics, syms \ {sym})

\* a fetch failure is taken for "every local position is gone"
manually_closed_on_error(pos, fetchOk, exchange_pos) ==
    {sym \in DOMAIN pos : ~fetchOk \/ sym \notin exchange_pos}

\* main.rs 205-213: local symbols missing from a successful fetch
manually_closed(pos, fetchOk, exchange_pos) ==
    IF fetchOk THEN {sym \in DOMAIN pos : sym \notin exchange_pos} ELSE {}

\* main.rs 189-246: top of the loop, snapshot and manual-close detection.
\* The iteration after the last modelled one is followed up to this point.
CycleStart ==
    /\ pc = "start"
    /\ cycles <= MaxCycles
    /\ \E fetchOk \in BOOLEAN, exchange_pos \in SUBSET ExchangeSymbols :
         LET called == DOMAIN positions # {}
             gone == manually_closed(positions, fetchOk, exchange_pos)
             r == CloseManually(positions, metrics, gone)
         IN  /\ (called /\ fetchOk) \/ exchange_pos = {}
             /\ called \/ ~fetchOk
             /\ positions' = r.positions
             /\ metrics' = r.metrics
             /\ ev' = [NoEv EXCEPT !.op = "start",
                                   !.fetches = IF called THEN 1 ELSE 0,
                                   !.fetchOk = fetchOk,
                                   !.reported = exchange_pos,
                                   !.notified = gone]
    /\ pending' = <<>>
    /\ idx' = 1
    /\ cycles' = cycles + 1
    /\ pc' = IF cycles < MaxCycles THEN "symbols" ELSE "stop"
    /\ UNCHANGED <<now, candle_buf, prefetch, rest, feed, lock, alerts>>

NextIdx == IF idx = Len(trading_pairs) THEN "place" ELSE "symbols"

\* only the 4 h buffer is looked at
candle_gate_4h_only(n4h, n15) == n4h < 20

\* main.rs 256-263: fewer than 20 candles on the 4 h or the entry key
candle_gate(n4h, n15) == n4h < 20 \/ n15 < 20

\* main.rs 256-263: the gate holds: continue
SkipSymbol ==
    /\ pc = "symbols"
    /\ \E n4h \in CandleCounts, n15 \in EntryCounts :
         /\ candle_gate(n4h, n15)
         /\ ev' = [NoEv EXCEPT !.op = "skip", !.sym = trading_pairs[idx],
                               !.gated = n4h < 20 \/ n15 < 20]
    /\ idx' = idx + 1
    /\ pc' = NextIdx
    /\ UNCHANGED <<positions, metrics, pending, now, cycles, candle_buf, prefetch, rest, feed, lock, alerts>>

\* What the entry filters read from the snapshot: the 4 h bias, the length of
\* the 1 h buffer, the break of structure, the detectors' results, the volume
\* test of check_fvg_breakout, the 4 h ATR and the 4 h Bollinger bands
EntryInputs(current_price, n4h) ==
    [bias : {"Bullish", "Bearish", "Neutral"},
     n1h : CandleCounts,
     structure_ok : BOOLEAN,
     bullish : detect_bullish_fvg(current_price),
     bearish : detect_bearish_fvg(current_price),
     volume_ok : BOOLEAN,
     atr : ATRs,
     bb : bollinger_bands(n4h)]

\* main.rs 363-417: the snapshot passes the bias, structure and FVG filters
confirmed_signal(inp, current_price) ==
    LET fvg_opt == IF inp.bias = "Bullish" THEN inp.bullish ELSE inp.bearish
    IN  /\ inp.bias # "Neutral"
        /\ inp.n1h >= 21
        /\ inp.structure_ok
        /\ fvg_opt.some
        /\ check_fvg_breakout(fvg_opt, current_price, inp.volume_ok)

\* sizing and validation see a daily budget that nothing has been taken from
EntryOf_full_budget(symbol, inp, m, current_price, ts) ==
    LET fvg_opt == IF inp.bias = "Bullish" THEN inp.bullish ELSE inp.bearish
        side == IF inp.bias = "Bullish" THEN "Buy" ELSE "Sell"
        m0 == [m EXCEPT !.daily_pnl = 0]
    IN  IF ~confirmed_signal(inp, current_price) THEN <<>>
        ELSE LET sig == sized_signal(symbol, fvg_opt, current_price,
                                     inp.atr, inp.bb, m0, ts)
             IN  IF entry_accepted(side, sig, m0)
                 THEN <<[symbol |-> symbol, sig |-> sig, side |-> side]>>
                 ELSE <<>>

\* main.rs 363-489 for one reading of the snapshot: what is pushed
EntryOf(symbol, inp, m, current_price, ts) ==
    LET fvg_opt == IF inp.bias = "Bullish" THEN inp.bullish ELSE inp.bearish
        side == IF inp.bias = "Bullish" THEN "Buy" ELSE "Sell"
    IN  IF ~confirmed_signal(inp, current_price) THEN <<>>
        ELSE LET sig == sized_signal(symbol, fvg_opt, current_price,
                                     inp.atr, inp.bb, m, ts)
             IN  IF entry_accepted(side, sig, m)
                 THEN <<[symbol |-> symbol, sig |-> sig, side |-> side]>>
                 ELSE <<>>

\* the cap compared with > instead of >=
max_positions_reached_gt(pos) == Cardinality(DOMAIN pos) > MAX_OPEN_POSITIONS

\* main.rs 355: positions.len() >= MAX_OPEN_POSITIONS
max_positions_reached(pos) == Cardinality(DOMAIN pos) >= MAX_OPEN_POSITIONS

\* main.rs 346-489: for every reading of the snapshot, whether it holds a
\* confirmed signal and the entry this iteration pushes
Pushes(symbol, pos, m, current_price, n4h, ts) ==
    {LET add == IF ~m.trading_enabled THEN <<>>
                ELSE IF max_positions_reached(pos) THEN <<>>
                ELSE EntryOf(symbol, inp, m, current_price, ts)
     IN  [confirmed |-> confirmed_signal(inp, current_price),
          add |-> add,
          bb |-> IF add # <<>> THEN inp.bb ELSE NoBB] :
        inp \in EntryInputs(current_price, n4h)}

NoPush == [confirmed |-> FALSE, add |-> <<>>, bb |-> NoBB]

\* main.rs 272-344, then 346-489 when the position was closed in this cycle
ManagePosition ==
    /\ pc = "symbols"
    /\ trading_pairs[idx] \in DOMAIN positions
    /\ LET symbol == trading_pairs[idx]
           p == symbol_params(symbol)
       IN  \E n4h \in CandleCounts, n15 \in EntryCounts, candle \in Candles :
             LET current_price == candle.close
                 op == update_position_pnl(positions[symbol], current_price)
                 m1 == [metrics EXCEPT
                          !.current_equity = metrics.account_balance + op.unrealized_pnl]
                 pos1 == [positions EXCEPT ![symbol] = op]
                 reason == close_reason(op, p, current_price, now)
                 pnl == (current_price - op.entry_price) * op.position_size
                        * multiplier(op.side)
             IN  \E closeOk \in {b \in BOOLEAN :
                                    ~candle_gate(n4h, n15) /\ (b => reason # "None")} :
                   LET r == IF closeOk
                            THEN close_position_local(pos1, symbol, m1, current_price)
                            ELSE [positions |-> pos1, metrics |-> m1]
                   IN  /\ positions' = r.positions
                       /\ metrics' = r.metrics
                       /\ \E push \in (IF closeOk
                                        THEN Pushes(symbol, r.positions, r.metrics,
                                                    current_price, n4h, now)
                                        ELSE {NoPush}) :
                            /\ pending' = pending \o push.add
                            /\ ev' = [NoEv EXCEPT
                                  !.op = "manage", !.sym = symbol, !.candle = candle,
                                  !.confirmed = push.confirmed,
                                  !.bb = push.bb,
                                  !.had = TRUE, !.side = op.side,
                                  !.stop_loss = op.stop_loss,
                                  !.take_profit_1 = op.take_profit_1,
                                  !.reason = reason,
                                  !.closeCalled = reason # "None",
                                  !.closeOk = closeOk,
                                  !.pnl = IF closeOk THEN pnl ELSE 0,
                                  !.gated = n4h < 20 \/ n15 < 20]
    /\ idx' = idx + 1
    /\ pc' = NextIdx
    /\ UNCHANGED <<now, cycles, candle_buf, prefetch, rest, feed, lock, alerts>>

\* main.rs 346-489 for a symbol without a position
ScanEntry ==
    /\ pc = "symbols"
    /\ trading_pairs[idx] \notin DOMAIN positions
    /\ LET symbol == trading_pairs[idx]
       IN  \E n4h \in CandleCounts, n15 \in EntryCounts, current_price \in Prices :
             \E push \in Pushes(symbol, positions, metrics, current_price, n4h, now) :
                /\ ~candle_gate(n4h, n15)
                /\ pending' = pending \o push.add
                /\ ev' = [NoEv EXCEPT !.op = "scan", !.sym = symbol,
                                      !.confirmed = push.confirmed,
                                      !.bb = push.bb,
                                      !.gated = n4h < 20 \/ n15 < 20]
    /\ idx' = idx + 1
    /\ pc' = NextIdx
    /\ UNCHANGED <<positions, metrics, now, cycles, candle_buf, prefetch, rest, feed, lock, alerts>>

\* main.rs 540: MAX_OPEN_POSITIONS.saturating_sub(positions.len())
slots_available(pos) == Max(MAX_OPEN_POSITIONS - Cardinality(DOMAIN pos), 0)

\* the exchange count is not consulted
orders_to_place_unchecked(pend, pos, exchange_open) ==
    SubSeq(pend, 1, Min(slots_available(pos), Len(pend)))

\* main.rs 528-543: the pending orders that get a place_order call
orders_to_place(pend, pos, exchange_open) ==
    LET kept == IF exchange_open >= MAX_OPEN_POSITIONS THEN <<>> ELSE pend
    IN  SubSeq(kept, 1, Min(slots_available(pos), Len(kept)))

\* main.rs 525-608: pre-placement count, parallel place_order, local inserts
PlaceOrders ==
    /\ pc = "place"
    /\ pending # <<>>
    /\ \E fetchOk \in BOOLEAN, exchange_pos \in SUBSET ExchangeSymbols :
         LET exchange_open == count_open_exchange_positions(fetchOk, exchange_pos)
             taken == orders_to_place(pending, positions, exchange_open)
             order(sym) == CHOOSE o \in {taken[i] : i \in 1..Len(taken)} : o.symbol = sym
             called == {taken[i].symbol : i \in 1..Len(taken)}
         IN  \E okSyms \in SUBSET called :
               /\ fetchOk \/ exchange_pos = {}
               /\ positions' = [sym \in (DOMAIN positions) \cup okSyms |->
                                  IF sym \in okSyms
                                  THEN create_position(order(sym).sig, order(sym).side)
                                  ELSE positions[sym]]
               /\ metrics' = [metrics EXCEPT !.trades_today = @ + Cardinality(okSyms)]
               /\ ev' = [NoEv EXCEPT
                          !.op = "place", !.fetches = 1, !.fetchOk = fetchOk,
                          !.exchange_open = exchange_open,
                          !.calls = [i \in 1..Len(taken) |-> taken[i].symbol],
                          !.okSyms = okSyms]
    /\ pc' = "end"
    /\ UNCHANGED <<idx, pending, now, cycles, candle_buf, prefetch, rest, feed, lock, alerts>>

\* main.rs 525: nothing pending, the placement block is skipped
NoPending ==
    /\ pc = "place"
    /\ pending = <<>>
    /\ ev' = [NoEv EXCEPT !.op = "nopending"]
    /\ pc' = "end"
    /\ UNCHANGED <<idx, positions, metrics, pending, now, cycles, candle_buf, prefetch, rest, feed, lock, alerts>>

\* main.rs 628-647: the daily reset
daily_reset(m) ==
    [m EXCEPT !.daily_pnl = 0, !.trades_today = 0, !.wins_today = 0,
              !.trading_enabled =
                  m.current_equity * 100 >= m.account_balance * EQUITY_FLOOR_PCT]

\* the sign of the comparison is turned
drawdown_cutoff_gain(m) == m.daily_pnl > max_daily_loss /\ m.trading_enabled

\* the flag is not looked at: the cutoff fires in every cycle of the day
drawdown_cutoff_repeated(m) == m.daily_pnl < 0 - max_daily_loss

\* main.rs 650: the drawdown cutoff fires
drawdown_cutoff(m) == m.daily_pnl < 0 - max_daily_loss /\ m.trading_enabled

\* main.rs 610-657: status report, daily reset, drawdown cutoff
EndCycle ==
    /\ pc = "end"
    /\ \E is_daily_reset_time \in BOOLEAN :
         LET m1 == IF is_daily_reset_time THEN daily_reset(metrics) ELSE metrics
             cut == drawdown_cutoff(m1)
         IN  /\ metrics' = IF cut THEN [m1 EXCEPT !.trading_enabled = FALSE] ELSE m1
             /\ ev' = [NoEv EXCEPT !.op = "end", !.reset = is_daily_reset_time,
                                   !.alert = cut]
             /\ alerts' = (IF is_daily_reset_time THEN 0 ELSE alerts)
                           + (IF cut THEN 1 ELSE 0)
    /\ pc' = "sleep"
    /\ UNCHANGED <<idx, positions, pending, now, cycles, candle_buf, prefetch, rest, feed, lock>>

\* main.rs 659: tokio::time::sleep(60 s), then the next iteration
Sleep ==
    /\ pc = "sleep"
    /\ \E dt \in SleepAdvance : now' = now + dt
    /\ ev' = [NoEv EXCEPT !.op = "sleep"]
    /\ pc' = "start"
    /\ UNCHANGED <<idx, positions, metrics, pending, cycles, candle_buf, prefetch, rest, feed, lock, alerts>>

Next ==
    \/ Reconcile
    \/ CycleStart
    \/ SkipSymbol
    \/ ManagePosition
    \/ ScanEntry
    \/ PlaceOrders
    \/ NoPending
    \/ EndCycle
    \/ Sleep

Spec == Init /\ [][Next]_vars

TypeOK ==
    /\ pc \in {"reconcile", "start", "symbols", "place", "end", "sleep", "stop",
              "sizing", "sized", "store", "rest", "pipeline", "validate"}
    /\ DOMAIN positions \subseteq ExchangeSymbols

----------------------------------------------------------------------------
\* Properties of the orchestrator

NumOpen(pos) == Cardinality(DOMAIN pos)

LossFloorBreached(m) == m.current_equity * 100 < m.account_balance * EQUITY_FLOOR_PCT

\* C1: in every reachable state the local positions map holds at most
\* MAX_OPEN_POSITIONS entries, whatever the exchange reports.
C1_LocalCap == NumOpen(positions) <= MAX_OPEN_POSITIONS

\* C2: while the local map holds MAX_OPEN_POSITIONS entries (or more), a
\* symbol's iteration pushes nothing into pending_orders, and a placement
\* step that starts with the map full makes no place_order call.
C2_NoOrderWhileFull ==
    [][/\ (pc = "symbols" /\ ev'.op = "scan"
            /\ NumOpen(positions) >= MAX_OPEN_POSITIONS) => pending' = pending
       /\ (pc = "symbols" /\ ev'.op = "manage"
            /\ NumOpen(positions') >= MAX_OPEN_POSITIONS) => pending' = pending
       /\ (pc = "place" /\ ev'.op = "place"
            /\ NumOpen(positions) >= MAX_OPEN_POSITIONS) => ev'.calls = <<>>]_vars

\* C2 witness: the snapshot of a symbol without a position held a confirmed
\* signal while two positions were open, and nothing became pending.
C2_Witness ==
    /\ ev.op = "scan"
    /\ ev.confirmed
    /\ ev.sym \notin DOMAIN positions
    /\ NumOpen(positions) = MAX_OPEN_POSITIONS
    /\ pending = <<>>

\* C3: the placement step queries the exchange once; with MAX_OPEN_POSITIONS or
\* more reported it places nothing; otherwise it calls place_order for a prefix
\* of pending_orders no longer than MAX_OPEN_POSITIONS - |positions|, and every
\* success inserts one local position and adds one to trades_today.
C3_Placement ==
    [][(pc = "place" /\ ev'.op = "place") =>
         LET calls == ev'.calls
             ok == ev'.okSyms
         IN  /\ ev'.fetches = 1
             /\ ev'.exchange_open >= MAX_OPEN_POSITIONS => calls = <<>>
             /\ Len(calls) <= Len(pending)
             /\ Len(calls) + NumOpen(positions) <= Max(MAX_OPEN_POSITIONS,
                                                       NumOpen(positions))
             /\ \A i \in 1..Len(calls) : calls[i] = pending[i].symbol
             /\ ok \subseteq {calls[i] : i \in 1..Len(calls)}
             /\ DOMAIN positions' = (DOMAIN positions) \cup ok
             /\ NumOpen(positions') = NumOpen(positions) + Cardinality(ok)
             /\ \A sym \in DOMAIN positions : positions'[sym] = positions[sym]
             /\ metrics'.trades_today = metrics.trades_today + Cardinality(ok)]_vars

\* C3 witness: two orders were pending with one slot left; only the first got a
\* place_order call, it succeeded, and the position was inserted.
C3_Witness ==
    /\ ev.op = "place"
    /\ Len(pending) = 2
    /\ ev.calls = <<pending[1].symbol>>
    /\ ev.okSyms = {pending[1].symbol}
    /\ pending[1].symbol \in DOMAIN positions
    /\ metrics.trades_today = 1

\* C4: every signal in pending_orders has stop_loss < entry_price < take_profit_1
\* when its side is Buy and take_profit_1 < entry_price < stop_loss when Sell.
C4_PendingDirection ==
    \A i \in 1..Len(pending) :
        LET sig == pending[i].sig
        IN  IF pending[i].side = "Buy"
            THEN sig.stop_loss < sig.entry_price /\ sig.entry_price < sig.take_profit_1
            ELSE sig.take_profit_1 < sig.entry_price /\ sig.entry_price < sig.stop_loss

\* C4 witness: a Buy and a Sell signal are pending in the same cycle.
C4_Witness ==
    /\ Len(pending) = 2
    /\ pending[1].side = "Buy"
    /\ pending[2].side = "Sell"

\* C6 as stated: at the end of every cycle trading_enabled is false whenever
\* |daily_pnl| >= max_daily_loss.
C6_AbsCutoff ==
    pc = "sleep" =>
        (Abs(metrics.daily_pnl) >= max_daily_loss => ~metrics.trading_enabled)

\* C6: at the end of every cycle trading_enabled is false whenever
\* daily_pnl < -max_daily_loss.
C6_LossCutoff ==
    pc = "sleep" =>
        (metrics.daily_pnl < 0 - max_daily_loss => ~metrics.trading_enabled)

\* C6 witness: the cutoff fired in this cycle on a loss beyond the limit.
C6_Witness ==
    /\ pc = "sleep"
    /\ ev.alert
    /\ metrics.daily_pnl < 0 - max_daily_loss
    /\ ~metrics.trading_enabled

\* C7: at the end of every cycle trading_enabled is false whenever
\* current_equity < account_balance * 0.90.
C7_EquityFloor ==
    pc = "sleep" => (LossFloorBreached(metrics) => ~metrics.trading_enabled)

CloseReasons == {"Stop-loss hit", "TP1 reached", "Time stop (28 h)"}

\* C8 as stated: a local position appears only after a successful place_order
\* for its symbol, and disappears only on a stop-loss hit, a TP1 hit or a time
\* stop (after a successful close call), a detected manual close, or a
\* reconciliation that finds the exchange position missing.
C8_TransitionsAsStated ==
    [][\A sym \in ExchangeSymbols :
         /\ (sym \notin DOMAIN positions /\ sym \in DOMAIN positions') =>
               (pc = "place" /\ ev'.op = "place" /\ sym \in ev'.okSyms)
         /\ (sym \in DOMAIN positions /\ sym \notin DOMAIN positions') =>
               \/ /\ pc = "symbols" /\ ev'.op = "manage" /\ ev'.sym = sym
                  /\ ev'.reason \in CloseReasons /\ ev'.closeOk
               \/ /\ pc = "start" /\ ev'.op = "start"
                  /\ ev'.fetchOk /\ sym \notin ev'.reported
               \/ /\ pc = "reconcile" /\ ev'.op = "reconcile"
                  /\ ev'.fetchOk /\ sym \notin ev'.reported]_vars

\* C8: a local position appears only after a successful place_order for its
\* symbol or when the startup reconciliation imports a position the exchange
\* reports; it disappears only on a stop-loss hit, a TP1 hit or a time stop
\* (after a successful close call), a detected manual close, or a
\* reconciliation that finds the exchange position missing.
C8_Transitions ==
    [][\A sym \in ExchangeSymbols :
         /\ (sym \notin DOMAIN positions /\ sym \in DOMAIN positions') =>
               \/ (pc = "place" /\ ev'.op = "place" /\ sym \in ev'.okSyms)
               \/ /\ pc = "reconcile" /\ ev'.op = "reconcile"
                  /\ ev'.fetchOk /\ sym \in ev'.reported
         /\ (sym \in DOMAIN positions /\ sym \notin DOMAIN positions') =>
               \/ /\ pc = "symbols" /\ ev'.op = "manage" /\ ev'.sym = sym
                  /\ ev'.reason \in CloseReasons /\ ev'.closeOk
               \/ /\ pc = "start" /\ ev'.op = "start"
                  /\ ev'.fetchOk /\ sym \notin ev'.reported
               \/ /\ pc = "reconcile" /\ ev'.op = "reconcile"
                  /\ ev'.fetchOk /\ sym \notin ev'.reported]_vars

\* C8 witness: after a placement the map holds a position inserted on the order
\* ack next to one that the startup reconciliation imported.
C8_Witness ==
    /\ ev.op = "place"
    /\ ev.okSyms = {"SOLUSDT"}
    /\ DOMAIN positions = {"SOLUSDT", "OTHERUSDT"}
    /\ positions["SOLUSDT"].risk_amount > 0
    /\ positions["OTHERUSDT"].risk_amount = 0

\* C9: the stop-loss and TP1 hits are evaluated against the latest candle's low
\* and high: a Buy whose low is at or below stop_loss (a Sell whose high is at
\* or above it) gets "Stop-loss hit", and otherwise a Buy whose high reaches
\* take_profit_1 (a Sell whose low reaches it) gets "TP1 reached".
C9_WickHits ==
    ev.op = "manage" =>
        LET sl_wick == \/ (ev.side = "Buy" /\ ev.candle.low <= ev.stop_loss)
                       \/ (ev.side = "Sell" /\ ev.candle.high >= ev.stop_loss)
            tp_wick == \/ (ev.side = "Buy" /\ ev.candle.high >= ev.take_profit_1)
                       \/ (ev.side = "Sell" /\ ev.candle.low <= ev.take_profit_1)
        IN  /\ sl_wick => ev.reason = "Stop-loss hit"
            /\ (~sl_wick /\ tp_wick) => ev.reason = "TP1 reached"

\* C10: when a close condition fires and close_position fails, the position
\* stays and account_balance, daily_pnl and wins_today are unchanged; when it
\* succeeds the position is removed, account_balance and daily_pnl both change
\* by the realized PnL (exit - entry) * size * direction, and wins_today grows
\* by one exactly when that PnL is positive.
C10_CloseAccounting ==
    [][(pc = "symbols" /\ ev'.op = "manage" /\ ev'.closeCalled) =>
         LET sym == ev'.sym
             op == positions[sym]
             pnl == (ev'.candle.close - op.entry_price) * op.position_size
                    * (IF op.side = "Buy" THEN 1 ELSE -1)
         IN  IF ev'.closeOk
             THEN /\ sym \notin DOMAIN positions'
                  /\ metrics'.account_balance = metrics.account_balance + pnl
                  /\ metrics'.daily_pnl = metrics.daily_pnl + pnl
                  /\ metrics'.wins_today =
                        metrics.wins_today + (IF pnl > 0 THEN 1 ELSE 0)
             ELSE /\ sym \in DOMAIN positions'
                  /\ metrics'.account_balance = metrics.account_balance
                  /\ metrics'.daily_pnl = metrics.daily_pnl
                  /\ metrics'.wins_today = metrics.wins_today]_vars

\* C10 witness: in one cycle a first position was closed with a profit and the
\* close call for a second one failed, leaving it open.
C10_Witness ==
    /\ ev.op = "manage"
    /\ ev.closeCalled
    /\ ~ev.closeOk
    /\ ev.sym \in DOMAIN positions
    /\ metrics.wins_today = 1
    /\ metrics.daily_pnl > 0
    /\ metrics.account_balance = ACCOUNT_BALANCE + metrics.daily_pnl

\* side_sign * (mark - entry) * size, summed over the symbols syms of pos
RECURSIVE SidePnl(_, _)
SidePnl(pos, syms) ==
    IF syms = {} THEN 0
    ELSE LET sym == CHOOSE x \in syms : TRUE
             op == pos[sym]
         IN  (op.mark_price - op.entry_price) * op.position_size * multiplier(op.side)
             + SidePnl(pos, syms \ {sym})

\* C11: when the per-cycle fetch of exchange positions succeeds, every local
\* position whose symbol is absent from it is removed in that step, a
\* manual-close notification is sent for it, and daily_pnl and account_balance
\* change by side_sign * (mark - entry) * size of the removed positions, for
\* Buy and Sell alike; when the fetch fails (or is not made) no local position
\* is removed.
C11_ManualClose ==
    [][(pc = "start" /\ ev'.op = "start") =>
         IF ev'.fetchOk
         THEN LET gone == (DOMAIN positions) \ ev'.reported
              IN  /\ DOMAIN positions' = (DOMAIN positions) \ gone
                  /\ ev'.notified = gone
                  /\ metrics'.daily_pnl = metrics.daily_pnl + SidePnl(positions, gone)
                  /\ metrics'.account_balance =
                        metrics.account_balance + SidePnl(positions, gone)
         ELSE positions' = positions]_vars

\* C12: after update_position_pnl the position's unrealized_pnl is
\* (mark - entry) * size for a Buy and (entry - mark) * size for a Sell.
C12_UnrealizedPnl ==
    (ev.op = "manage" /\ ev.sym \in DOMAIN positions) =>
        LET op == positions[ev.sym]
        IN  op.unrealized_pnl =
                IF op.side = "Buy"
                THEN (ev.candle.close - op.entry_price) * op.position_size
                ELSE (op.entry_price - ev.candle.close) * op.position_size

\* C13: after a successful startup reconciliation the local symbols are the
\* exchange's symbols, every local size equals the exchange size, and an
\* imported position carries the exchange's stop-loss and take-profit where
\* they are set and otherwise a stop 5 % and a target 10 % from the entry on
\* the side of the position; when the fetch fails the local state is unchanged.
C13_Reconcile ==
    [][(pc = "reconcile" /\ ev'.op = "reconcile") =>
         IF ev'.fetchOk
         THEN /\ DOMAIN positions' = DOMAIN ev'.infos
              /\ \A sym \in DOMAIN ev'.infos :
                    LET info == ev'.infos[sym]
                        op == positions'[sym]
                        up == info.side = "Buy"
                    IN  /\ op.position_size = info.size
                        /\ sym \notin DOMAIN positions =>
                              /\ op.side = info.side
                              /\ op.entry_price = info.avg_price
                              /\ op.stop_loss =
                                    IF info.stop_loss > 0 THEN info.stop_loss
                                    ELSE IF up THEN (info.avg_price * 95) \div 100
                                         ELSE (info.avg_price * 105) \div 100
                              /\ op.take_profit_1 =
                                    IF info.take_profit > 0 THEN info.take_profit
                                    ELSE IF up THEN (info.avg_price * 110) \div 100
                                         ELSE (info.avg_price * 90) \div 100
         ELSE positions' = positions]_vars

\* a reconciliation has imported one position with the exchange's stop and
\* target and one with the synthesized ones
C13_Witness ==
    /\ ev.op = "reconcile"
    /\ ev.fetchOk
    /\ \E a \in DOMAIN positions, b \in DOMAIN positions :
         /\ ev.infos[a].stop_loss > 0
         /\ positions[a].stop_loss = ev.infos[a].stop_loss
         /\ positions[a].take_profit_1 = ev.infos[a].take_profit
         /\ ev.infos[b].stop_loss = 0
         /\ ev.infos[b].take_profit = 0
         /\ positions[b].side = "Buy"
         /\ positions[b].stop_loss = 950
         /\ positions[b].take_profit_1 = 1100

\* a stop-loss, TP1 or time-stop condition holds for position op of symbol sym
CloseDue(op, sym, price, now_ts) ==
    \/ op.side = "Buy" /\ (price <= op.stop_loss \/ price >= op.take_profit_1)
    \/ op.side = "Sell" /\ (price >= op.stop_loss \/ price <= op.take_profit_1)
    \/ now_ts - op.entry_time > symbol_params(sym).time_stop

\* C24: while the remaining daily budget max_daily_loss - |daily_pnl| is zero
\* or negative no signal is pushed into pending_orders, and an open position
\* whose stop-loss, TP1 or time stop fires still gets its close call in that
\* cycle and is removed when the call succeeds.
C24_ZeroBudget ==
    [][pc = "symbols" =>
         /\ max_daily_loss - Abs(metrics'.daily_pnl) <= 0 => pending' = pending
         /\ (/\ ev'.op = "manage"
             /\ max_daily_loss - Abs(metrics.daily_pnl) <= 0
             /\ CloseDue(positions[ev'.sym], ev'.sym, ev'.candle.close, now)) =>
                /\ ev'.closeCalled
                /\ ev'.closeOk => ev'.sym \notin DOMAIN positions']_vars

\* with the budget used up by an earlier close of the cycle, a position is
\* closed and the confirmed signal of its symbol is not pushed
C24_Witness ==
    /\ ev.op = "manage"
    /\ ev.closeOk
    /\ ev.confirmed
    /\ max_daily_loss - Abs(metrics.daily_pnl - ev.pnl) <= 0
    /\ max_daily_loss - Abs(metrics.daily_pnl) <= 0
    /\ ev.sym \notin DOMAIN positions
    /\ pending = <<>>

\* C28: a symbol with fewer than 20 candles on the 4 h key or on the
\* entry-timeframe key is skipped in that cycle: nothing is pushed for it and
\* a local position of that symbol is neither updated nor closed.
C28_GatedSymbolSkipped ==
    [][(pc = "symbols" /\ ev'.gated) =>
          /\ ev'.op = "skip"
          /\ ev'.sym = trading_pairs[idx]
          /\ ~ev'.closeCalled
          /\ positions' = positions
          /\ metrics' = metrics
          /\ pending' = pending]_vars

\* a symbol is skipped while its local position is past its time stop
C28_Witness ==
    /\ ev.op = "skip"
    /\ ev.gated
    /\ ev.sym \in DOMAIN positions
    /\ now - positions[ev.sym].entry_time > symbol_params(ev.sym).time_stop
    /\ positions[ev.sym].unrealized_pnl = 0

----------------------------------------------------------------------------
\* calculate_position_size on its own: the account states and signals it is
\* applied to, and the step that applies it

SizingBalances == {-100000, 0, 123456, 987650, ACCOUNT_BALANCE}

SizingPnls == {-60000, -49999, -25000, 0, 49000}

SizingStops == {950, 970, 980, 1000, 1020, 1070}

InitSizing ==
    /\ pc = "sizing"
    /\ idx = 1
    /\ positions = EmptyMap
    /\ metrics \in {[InitMetrics EXCEPT !.account_balance = b, !.current_equity = b,
                                        !.daily_pnl = d] :
                       b \in SizingBalances, d \in SizingPnls}
    /\ pending = <<>>
    /\ now = 0
    /\ cycles = 0
    /\ ev = NoEv
    /\ candle_buf = <<>>
    /\ prefetch = NoPrefetch
    /\ rest = NoRest
    /\ feed = NoFeed
    /\ lock = "none"
    /\ alerts = 0

\* main.rs 431: signal.position_size = calculate_position_size(&signal, &metrics, &p)
SizeSignal ==
    /\ pc = "sizing"
    /\ \E symbol \in Symbols, entry_price \in Prices, stop_loss \in SizingStops :
         LET p == symbol_params(symbol)
             signal == [build_signal(NoFvgZone, entry_price, now)
                          EXCEPT !.stop_loss = stop_loss]
         IN  ev' = [op |-> "size", sym |-> symbol,
                    entry_price |-> entry_price, stop_loss |-> stop_loss,
                    qty_step |-> p.qty_step,
                    position_size |-> calculate_position_size(signal, metrics, p)]
    /\ pc' = "sized"
    /\ UNCHANGED <<idx, positions, metrics, pending, now, cycles, candle_buf, prefetch, rest, feed, lock, alerts>>

NextSizing == SizeSignal

SpecSizing == InitSizing /\ [][NextSizing]_vars

\* C5 as stated: for every account state the quantity calculate_position_size
\* returns is an integer multiple of qty_step, its risk quantity *
\* |entry_price - stop_loss| does not exceed account_balance *
\* MAX_RISK_PER_TRADE_PCT, and it is 0 when entry_price equals stop_loss.
C5_SizeBoundAsStated ==
    ev.op = "size" =>
        LET risk_per_unit == Abs(ev.entry_price - ev.stop_loss)
        IN  /\ ev.position_size % ev.qty_step = 0
            /\ ev.position_size * risk_per_unit * 100
                 <= metrics.account_balance * MAX_RISK_PER_TRADE_PCT
            /\ risk_per_unit = 0 => ev.position_size = 0

\* C5: the quantity calculate_position_size returns is an integer multiple of
\* qty_step and is 0 when entry_price equals stop_loss; while account_balance is
\* not negative its risk quantity * |entry_price - stop_loss| does not exceed
\* account_balance * MAX_RISK_PER_TRADE_PCT, and with a negative account_balance
\* the quantity is never positive (in the exact arithmetic of the model's units).
C5_SizeBound ==
    ev.op = "size" =>
        LET risk_per_unit == Abs(ev.entry_price - ev.stop_loss)
        IN  /\ ev.position_size % ev.qty_step = 0
            /\ metrics.account_balance >= 0 =>
                  ev.position_size * risk_per_unit * 100
                     <= metrics.account_balance * MAX_RISK_PER_TRADE_PCT
            /\ metrics.account_balance < 0 => ev.position_size <= 0
            /\ risk_per_unit = 0 => ev.position_size = 0

\* C5 witness: a positive quantity on the 1.0 step that the rounding down to
\* the step made strictly smaller than the risk allowance permits.
C5_Witness ==
    /\ ev.op = "size"
    /\ ev.qty_step = 10
    /\ ev.position_size > 0
    /\ ev.position_size * Abs(ev.entry_price - ev.stop_loss) * 100
         < metrics.account_balance * MAX_RISK_PER_TRADE_PCT
    /\ (ev.position_size + ev.qty_step) * Abs(ev.entry_price - ev.stop_loss) * 100
         > metrics.account_balance * MAX_RISK_PER_TRADE_PCT

----------------------------------------------------------------------------
\* The candle store: one buffer of BybitWsClient.candle_map, written by the
\* WebSocket feed task (websocket_handler.rs 97-116) and by the prefetch task
\* of its key (main.rs 116-131).  Both tasks are spawned at startup and take
\* the map's lock for each write, so their writes interleave in any order.
\* Timestamps count candle intervals; a candle is its timestamp and its close.

BUFFER_SIZE == 50

\* the limit argument of fetch_klines in the prefetch task
PREFETCH_LIMIT == 30

\* the interval that is open when the process starts
StoreStart == 60

\* how many interval boundaries pass
MaxTicks == 2

Closes == {1, 2}

Kline(ts, close) == [timestamp |-> ts, close |-> close]

back(buf) == buf[Len(buf)]

\* every write pushes, the tail is never replaced
append_or_replace_push(buf, candle) ==
    LET pushed == Append(buf, candle)
    IN  IF Len(pushed) > BUFFER_SIZE THEN SubSeq(pushed, 2, Len(pushed)) ELSE pushed

\* websocket_handler.rs 104-112
append_or_replace(buf, candle) ==
    IF buf # <<>> /\ back(buf).timestamp = candle.timestamp
    THEN [buf EXCEPT ![Len(buf)] = candle]
    ELSE LET pushed == Append(buf, candle)
         IN  IF Len(pushed) > BUFFER_SIZE THEN SubSeq(pushed, 2, Len(pushed))
             ELSE pushed

\* bybit_api.rs 318-336: the last limit candles up to the open one, oldest first
fetch_klines(ts, limit) == [i \in 1..limit |-> Kline(ts - limit + i, 1)]

\* main.rs 123-125: for c in candles { buf.push_back(c); }
seed(buf, candles) == buf \o candles

\* a buffer of n candles that has been running for a while (prefetch long done)
RunningBuf(n) == [i \in 1..n |-> Kline(StoreStart - n + i, 1)]

\* The store right after BybitWsClient::new (empty buffer, prefetch to come),
\* or later in the run with the buffer just below or at its capacity
InitStore ==
    /\ pc = "store"
    /\ idx = 1
    /\ positions = EmptyMap
    /\ metrics = InitMetrics
    /\ pending = <<>>
    /\ now = StoreStart
    /\ cycles = 0
    /\ ev = [op |-> "init"]
    /\ \/ candle_buf = <<>> /\ prefetch = NoPrefetch
       \/ /\ candle_buf \in {RunningBuf(BUFFER_SIZE - 1), RunningBuf(BUFFER_SIZE)}
          /\ prefetch = [pc |-> "done", klines |-> <<>>]
    /\ rest = NoRest
    /\ feed = NoFeed
    /\ lock = "none"
    /\ alerts = 0

\* an interval boundary passes
Tick ==
    /\ pc = "store"
    /\ now < StoreStart + MaxTicks
    /\ now' = now + 1
    /\ ev' = [op |-> "tick"]
    /\ UNCHANGED <<pc, idx, positions, metrics, pending, cycles, candle_buf, prefetch, rest, feed, lock, alerts>>

\* websocket_handler.rs 97-116: a kline message for the key.  The exchange
\* streams the open candle; parse_candle gives timestamp 0 to a record
\* without a start time, and such a record is skipped.
FeedWrite ==
    /\ pc = "store"
    /\ \E ts \in {0, now}, close \in Closes :
         LET candle == Kline(ts, close)
         IN  /\ candle_buf' = IF candle.timestamp = 0 THEN candle_buf
                              ELSE append_or_replace(candle_buf, candle)
             /\ ev' = [op |-> "feed", candle |-> candle,
                       again |-> ts # 0 /\ ev.op = "feed"
                                 /\ ev.candle.timestamp = ts]
    /\ UNCHANGED <<pc, idx, positions, metrics, pending, now, cycles, prefetch, rest, feed, lock, alerts>>

\* main.rs 120: fetch_klines(&symbol, &tf, 30) returns, with candles or an error
PrefetchFetch ==
    /\ pc = "store"
    /\ prefetch.pc = "pending"
    /\ \E ok \in BOOLEAN :
         prefetch' = IF ok THEN [pc |-> "fetched",
                                 klines |-> fetch_klines(now, PREFETCH_LIMIT)]
                     ELSE [pc |-> "done", klines |-> <<>>]
    /\ ev' = [op |-> "fetch"]
    /\ UNCHANGED <<pc, idx, positions, metrics, pending, now, cycles, candle_buf, rest, feed, lock, alerts>>

\* main.rs 121-129: the fetched candles are pushed under the map's lock
PrefetchSeed ==
    /\ pc = "store"
    /\ prefetch.pc = "fetched"
    /\ candle_buf' = seed(candle_buf, prefetch.klines)
    /\ prefetch' = [pc |-> "done", klines |-> <<>>]
    /\ ev' = [op |-> "seed"]
    /\ UNCHANGED <<pc, idx, positions, metrics, pending, now, cycles, rest, feed, lock, alerts>>

NextStore ==
    \/ Tick
    \/ FeedWrite
    \/ PrefetchFetch
    \/ PrefetchSeed

SpecStore == InitStore /\ [][NextStore]_vars

\* C14: under any interleaving of feed writes and prefetch seeding the buffer
\* holds at most BUFFER_SIZE candles and no candle has a larger timestamp than
\* the last one.
C14_CapAndTail ==
    /\ Len(candle_buf) <= BUFFER_SIZE
    /\ \A i \in 1..Len(candle_buf) :
         candle_buf[i].timestamp <= back(candle_buf).timestamp

\* C15: the timestamps in the buffer are strictly increasing from head to
\* tail, also when the feed wrote before the prefetched candles are seeded.
C15_StrictlyIncreasing ==
    \A i \in 1..(Len(candle_buf) - 1) :
        candle_buf[i].timestamp < candle_buf[i + 1].timestamp

\* C16: a feed write with the timestamp of the feed write just before it
\* leaves the length of the buffer and every candle but the last as the first
\* write left them, and the tail holds the values of the second candle.
C16_Idempotent ==
    [][(pc = "store" /\ ev.op = "feed" /\ ev'.op = "feed"
        /\ ev'.candle.timestamp # 0
        /\ ev'.candle.timestamp = ev.candle.timestamp) =>
          /\ Len(candle_buf') = Len(candle_buf)
          /\ \A i \in 1..(Len(candle_buf) - 1) : candle_buf'[i] = candle_buf[i]
          /\ back(candle_buf') = ev'.candle]_vars

\* two feed writes in a row for the same interval with different values, the
\* first of which pushed onto a full buffer
C16_Witness ==
    /\ ev.op = "feed"
    /\ ev.again
    /\ Len(candle_buf) = BUFFER_SIZE
    /\ candle_buf[1].timestamp = StoreStart - BUFFER_SIZE + 2
    /\ back(candle_buf) = Kline(StoreStart + 1, 2)

----------------------------------------------------------------------------
\* The REST client (bybit_api.rs): one operation of BybitClient, from its call
\* to its return.  Each request gets a response drawn from Responses.

\* retry_after of the RateLimit error built by classify_error, in seconds
RETRY_AFTER == 10

\* the cap of the backoff delay, in seconds
MAX_DELAY == 60

\* The public operations: whether the raw call goes through with_retry, and
\* with which max_retries
REST_OPS ==
    [place_order |-> [wrapped |-> TRUE, max_retries |-> 3],
     close_position |-> [wrapped |-> TRUE, max_retries |-> 3],
     get_position |-> [wrapped |-> TRUE, max_retries |-> 5],
     fetch_klines |-> [wrapped |-> TRUE, max_retries |-> 3],
     get_all_open_positions |-> [wrapped |-> FALSE, max_retries |-> 0],
     fetch_linear_symbols |-> [wrapped |-> FALSE, max_retries |-> 0],
     place_limit_order |-> [wrapped |-> FALSE, max_retries |-> 0]]

\* retCode of a JSON body: success, rate limit, overload, another error code,
\* and -1 for a body without retCode
RetCodes == {0, 10006, 10016, 110007, -1}

HttpStatuses == {200, 400, 429, 500, 599}

\* What a request comes back with: nothing (send error or timeout), a body
\* that is not JSON, or a JSON body
Responses ==
    {[kind |-> "none", ret_code |-> 0, http_status |-> 0]}
    \cup {[kind |-> "text", ret_code |-> 0, http_status |-> h] : h \in HttpStatuses}
    \cup {[kind |-> "json", ret_code |-> c, http_status |-> h] :
            c \in RetCodes, h \in HttpStatuses}

\* bybit_api.rs 48-54
classify_error(ret_code, http_status) ==
    IF ret_code = 10006 \/ http_status = 429 THEN "RateLimit"
    ELSE IF ret_code = 10016 \/ http_status \in 500..599 THEN "Transient"
    ELSE "Permanent"

\* bybit_api.rs 181-198 (and the same lines of every other raw call): the
\* result of one request
raw_result(resp) ==
    IF resp.kind # "json" THEN "Transient"
    ELSE IF resp.ret_code = 0 THEN "Ok"
    ELSE classify_error(resp.ret_code, resp.http_status)

\* a Permanent error is retried like a Transient one
with_retry_permanent_retried(r, result, max_retries) ==
    IF result = "Ok" THEN [r EXCEPT !.status = "ok"]
    ELSE IF result = "RateLimit"
    THEN IF r.retries >= max_retries
         THEN [r EXCEPT !.status = "err", !.error = result]
         ELSE [r EXCEPT !.slept = Append(@, [error |-> result, secs |-> RETRY_AFTER]),
                        !.retries = @ + 1]
    ELSE IF r.retries >= max_retries
         THEN [r EXCEPT !.status = "err", !.error = result]
         ELSE [r EXCEPT !.slept = Append(@, [error |-> result, secs |-> r.delay]),
                        !.delay = Min(r.delay * 2, MAX_DELAY),
                        !.retries = @ + 1]

\* bybit_api.rs 57-87: what the loop does with the result of one call of the
\* operation
with_retry(r, result, max_retries) ==
    IF result = "Ok" THEN [r EXCEPT !.status = "ok"]
    ELSE IF result = "RateLimit"
    THEN IF r.retries >= max_retries
         THEN [r EXCEPT !.status = "err", !.error = result]
         ELSE [r EXCEPT !.slept = Append(@, [error |-> result, secs |-> RETRY_AFTER]),
                        !.retries = @ + 1]
    ELSE IF result = "Transient"
    THEN IF r.retries >= max_retries
         THEN [r EXCEPT !.status = "err", !.error = result]
         ELSE [r EXCEPT !.slept = Append(@, [error |-> result, secs |-> r.delay]),
                        !.delay = Min(r.delay * 2, MAX_DELAY),
                        !.retries = @ + 1]
    ELSE [r EXCEPT !.status = "err", !.error = result]

\* an operation whose public method is the raw call itself
unwrapped(r, result) ==
    IF result = "Ok" THEN [r EXCEPT !.status = "ok"]
    ELSE [r EXCEPT !.status = "err", !.error = result]

InitRest ==
    /\ pc = "rest"
    /\ idx = 1
    /\ positions = EmptyMap
    /\ metrics = InitMetrics
    /\ pending = <<>>
    /\ now = 0
    /\ cycles = 0
    /\ ev = NoEv
    /\ candle_buf = <<>>
    /\ prefetch = NoPrefetch
    /\ rest = NoRest
    /\ feed = NoFeed
    /\ lock = "none"
    /\ alerts = 0

\* a caller invokes one of the public operations
CallOp ==
    /\ pc = "rest"
    /\ rest.status = "idle"
    /\ \E op \in DOMAIN REST_OPS : rest' = [NoRest EXCEPT !.op = op, !.status = "running"]
    /\ UNCHANGED <<pc, idx, positions, metrics, pending, now, cycles, ev,
                   candle_buf, prefetch, feed, lock, alerts>>

\* one request of the operation, its response, and what follows from it: a
\* return, or a sleep before the next request.  A JSON body tells whether
\* the exchange carried the request out (retCode 0); a request that timed
\* out, or whose body could not be parsed, was carried out or not.
Request ==
    /\ pc = "rest"
    /\ rest.status = "running"
    /\ \E resp \in Responses, done \in BOOLEAN :
         LET result == raw_result(resp)
             r == [rest EXCEPT !.calls = @ + 1, !.resp = resp, !.outcome = result,
                               !.served = @ + (IF done THEN 1 ELSE 0)]
         IN  /\ resp.kind = "json" => (done <=> resp.ret_code = 0)
             /\ rest' = IF REST_OPS[rest.op].wrapped
                         THEN with_retry(r, result, REST_OPS[rest.op].max_retries)
                         ELSE unwrapped(r, result)
    /\ UNCHANGED <<pc, idx, positions, metrics, pending, now, cycles, ev,
                   candle_buf, prefetch, feed, lock, alerts>>

NextRest ==
    \/ CallOp
    \/ Request

SpecRest == InitRest /\ [][NextRest]_vars

\* the number of Transient sleeps among the first n sleeps
TransientSleeps(slept, n) ==
    Cardinality({j \in 1..n : slept[j].error = "Transient"})

\* C17: under repeated Transient or RateLimit failures place_order and
\* close_position send their request at most 3 times and get_position at most
\* 5 times; the k-th consecutive Transient sleep lasts 1, 2, 4, ... seconds
\* capped at 60 and a RateLimit sleep lasts retry_after.
C17_RetryBudget ==
    /\ rest.op \in {"place_order", "close_position"} => rest.calls <= 3
    /\ rest.op = "get_position" => rest.calls <= 5
    /\ \A i \in 1..Len(rest.slept) :
         rest.slept[i].secs =
            IF rest.slept[i].error = "RateLimit" THEN RETRY_AFTER
            ELSE Min(2 ^ TransientSleeps(rest.slept, i - 1), MAX_DELAY)

\* C18: when a request of a retried operation fails with a Permanent error,
\* the operation returns that error after that request, without a sleep, and
\* sends no further request, whatever number of retries is left.
C18_PermanentReturns ==
    [][pc = "rest" =>
         /\ (rest.status = "running" /\ rest'.calls = rest.calls + 1
             /\ rest'.outcome = "Permanent") =>
                /\ rest'.status = "err"
                /\ rest'.error = "Permanent"
                /\ rest'.slept = rest.slept
         /\ rest.status = "err" => rest'.calls = rest.calls]_vars

\* get_position has returned a Permanent error on its third request, with
\* three of its five retries left
C18_Witness ==
    /\ rest.op = "get_position"
    /\ rest.status = "err"
    /\ rest.error = "Permanent"
    /\ rest.calls = 3
    /\ rest.retries = 2
    /\ Len(rest.slept) = 2

\* C19: no REST operation returns a Transient or RateLimit failure to its
\* caller after a single request; it repeats the request first.
C19_EveryOpRetries ==
    (rest.status = "err" /\ rest.error \in {"Transient", "RateLimit"}) =>
        rest.calls > 1

\* C20: for every JSON response the result is RateLimit when the code is 10006
\* or the status 429, otherwise Transient when the code is 10016 or the status
\* 5xx, otherwise Permanent for any other non-zero code; and no response with
\* status 429 or 5xx is taken for a success or a Permanent error.
C20_Classification ==
    rest.calls > 0 =>
        LET c == rest.resp.ret_code
            h == rest.resp.http_status
        IN  /\ rest.resp.kind = "json" =>
                 IF c = 10006 \/ h = 429 THEN rest.outcome = "RateLimit"
                 ELSE IF c = 10016 \/ h \in 500..599 THEN rest.outcome = "Transient"
                 ELSE c # 0 => rest.outcome = "Permanent"
            /\ (rest.resp.kind # "none" /\ (h = 429 \/ h \in 500..599)) =>
                 rest.outcome \notin {"Ok", "Permanent"}

----------------------------------------------------------------------------
\* The symbol loop on its own (main.rs 201-489), entered with local positions
\* of any age and with stop and target levels as the exchange reported them
\* at startup: the orchestrator copies the levels without comparing them, so
\* a stop and a target at the same price are among them.

CloseInfos ==
    {[side |-> "Sell", size |-> 2500, avg_price |-> 1000, stop_loss |-> 1020,
      take_profit |-> 980, created_time |-> 0],
     [side |-> "Buy", size |-> 2500, avg_price |-> 1000, stop_loss |-> 980,
      take_profit |-> 1020, created_time |-> 0],
     [side |-> "Buy", size |-> 2500, avg_price |-> 1000, stop_loss |-> 1020,
      take_profit |-> 1020, created_time |-> 0],
     [side |-> "Sell", size |-> 2500, avg_price |-> 1000, stop_loss |-> 980,
      take_profit |-> 980, created_time |-> 0]}

\* the clock at the cycle, around the time stops of 7 and 14 candles
CloseTimes == {0, 7, 8, 14, 15}

InitClose ==
    /\ pc = "symbols"
    /\ idx = 1
    /\ positions \in UNION {[D -> {orphan_to_open_position(info) : info \in CloseInfos}] :
                              D \in (SUBSET Symbols) \ {{}}}
    /\ metrics = InitMetrics
    /\ pending = <<>>
    /\ now \in CloseTimes
    /\ cycles = 1
    /\ ev = NoEv
    /\ candle_buf = <<>>
    /\ prefetch = NoPrefetch
    /\ rest = NoRest
    /\ feed = NoFeed
    /\ lock = "none"
    /\ alerts = 0

NextClose ==
    \/ SkipSymbol
    \/ ManagePosition
    \/ ScanEntry

SpecClose == InitClose /\ [][NextClose]_vars

\* C29: for a managed position a close_position call is made exactly when a
\* close condition holds, and its reason is the first that holds of stop-loss
\* hit, TP1 reached and time stop; the time stop holds only when
\* now - entry_time exceeds time_stop_candles * 4 h.
C29_CloseReasonOrder ==
    [][(pc = "symbols" /\ ev'.op = "manage") =>
         LET op == positions[ev'.sym]
             price == ev'.candle.close
             sl == IF op.side = "Buy" THEN price <= op.stop_loss
                   ELSE price >= op.stop_loss
             tp == IF op.side = "Buy" THEN price >= op.take_profit_1
                   ELSE price <= op.take_profit_1
             late == now - op.entry_time > symbol_params(ev'.sym).time_stop
         IN  /\ ev'.reason = IF sl THEN "Stop-loss hit"
                             ELSE IF tp THEN "TP1 reached"
                             ELSE IF late THEN "Time stop (28 h)"
                             ELSE "None"
             /\ ev'.closeCalled <=> (sl \/ tp \/ late)]_vars

\* stop-loss, TP1 and time stop hold together and the close call, made for
\* the stop-loss, has failed
C29_Witness ==
    /\ ev.op = "manage"
    /\ ev.reason = "Stop-loss hit"
    /\ ev.closeCalled
    /\ ~ev.closeOk
    /\ ev.side = "Sell"
    /\ ev.candle.close >= ev.stop_loss
    /\ ev.candle.close <= ev.take_profit_1
    /\ now - positions[ev.sym].entry_time > symbol_params(ev.sym).time_stop

----------------------------------------------------------------------------
\* The signal pipeline on its own (main.rs 421-439): the snapshots, account
\* states and tick sizes it is applied to, and the step that applies it

\* p.tick_size in 0.1 USDT; 0 stands for an instrument without a price grid
TickSizes == {0, 20, 50}

PipelinePnls == {0, -25000, -49000}

InitPipeline ==
    /\ pc = "pipeline"
    /\ idx = 1
    /\ positions = EmptyMap
    /\ metrics \in {[InitMetrics EXCEPT !.daily_pnl = d] : d \in PipelinePnls}
    /\ pending = <<>>
    /\ now = 0
    /\ cycles = 0
    /\ ev = NoEv
    /\ candle_buf = <<>>
    /\ prefetch = NoPrefetch
    /\ rest = NoRest
    /\ feed = NoFeed
    /\ lock = "none"
    /\ alerts = 0

\* main.rs 419-441: a confirmed zone becomes the signal handed to the guard
\* and to validate_trade
BuildSignal ==
    /\ pc = "pipeline"
    /\ \E symbol \in Symbols, current_price \in Prices, atr \in ATRs,
          bb \in BBs \cup {NoBB}, tick \in TickSizes :
         \E fvg \in (detect_bullish_fvg(current_price)
                        \cup detect_bearish_fvg(current_price)) \ {NoFvg} :
            LET p == symbol_params(symbol)
            IN  ev' = [op |-> "signal", sym |-> symbol, tick |-> tick,
                       raw |-> raw_signal(fvg, current_price, atr, bb, p, now),
                       sig |-> signal_pipeline(fvg, current_price, atr, bb,
                                               metrics, p, tick, now)]
    /\ pc' = "validate"
    /\ UNCHANGED <<idx, positions, metrics, pending, now, cycles,
                   candle_buf, prefetch, rest, feed, lock, alerts>>

NextPipeline == BuildSignal

SpecPipeline == InitPipeline /\ [][NextPipeline]_vars

\* price x is the multiple of tick nearest to raw
Snapped(x, raw, tick) == x % tick = 0 /\ 2 * Abs(x - raw) <= tick

\* C30: in every signal that reaches validation the stop-loss and both
\* take-profits are snapped to tick_size, position_size is the size computed
\* from the snapped stop-loss, and risk_amount is |entry_price - stop_loss| *
\* position_size with that size; with tick_size zero the three prices are the
\* unrounded ones.
C30_SnapBeforeSizing ==
    (pc = "validate" /\ ev.op = "signal") =>
        LET sig == ev.sig
            raw == ev.raw
        IN  /\ IF ev.tick > 0
               THEN /\ Snapped(sig.stop_loss, raw.stop_loss, ev.tick)
                    /\ Snapped(sig.take_profit_1, raw.take_profit_1, ev.tick)
                    /\ Snapped(sig.take_profit_2, raw.take_profit_2, ev.tick)
               ELSE /\ sig.stop_loss = raw.stop_loss
                    /\ sig.take_profit_1 = raw.take_profit_1
                    /\ sig.take_profit_2 = raw.take_profit_2
            /\ sig.entry_price = raw.entry_price
            /\ sig.position_size =
                 calculate_position_size([raw EXCEPT !.stop_loss = sig.stop_loss],
                                         metrics, symbol_params(ev.sym))
            /\ sig.risk_amount = Abs(sig.entry_price - sig.stop_loss) * sig.position_size

\* the stop-loss moved when it was snapped and the size computed from the
\* unrounded stop-loss would have been another one
C30_Witness ==
    /\ pc = "validate"
    /\ ev.op = "signal"
    /\ ev.tick > 0
    /\ ev.sig.stop_loss # ev.raw.stop_loss
    /\ ev.sig.position_size > 0
    /\ ev.sig.position_size #
         calculate_position_size(ev.raw, metrics, symbol_params(ev.sym))
    /\ ev.sig.risk_amount > 0

----------------------------------------------------------------------------
\* The end of the cycle around UTC midnight (main.rs 627-659).  Here the clock
\* now counts seconds, so that the minute read by is_daily_reset_time can be
\* told from the next one.  A cycle is the 60 s sleep plus the time its own
\* work takes (REST calls, notifications).

CYCLE_SLEEP == 60

DAY == 86400

\* how long the work of one cycle may take, in seconds
WorkTimes == {0, 15, 30}

\* the first check of the run falls into the last two minutes of a day
DayStarts == {DAY - 120, DAY - 105, DAY - 90, DAY - 75}

\* the run is followed for two minutes past midnight
DayEnd == DAY + 120

\* main.rs 845-848: now.hour() == 0 && now.minute() == 0
is_daily_reset_time(t) ==
    (t % DAY) \div 3600 = 0 /\ ((t % DAY) % 3600) \div 60 = 0

InitDay ==
    /\ pc = "end"
    /\ idx = 1
    /\ positions = EmptyMap
    /\ metrics \in {[InitMetrics EXCEPT !.daily_pnl = d, !.current_equity = q,
                                        !.trades_today = 1] :
                      d \in {0, -60000, 30000},
                      q \in {ACCOUNT_BALANCE, (ACCOUNT_BALANCE * 85) \div 100}}
    /\ pending = <<>>
    /\ now \in DayStarts
    /\ cycles = 0
    /\ ev = [op |-> "init", reset |-> FALSE, alert |-> FALSE, resets |-> 0]
    /\ candle_buf = <<>>
    /\ prefetch = NoPrefetch
    /\ rest = NoRest
    /\ feed = NoFeed
    /\ lock = "none"
    /\ alerts = 0

\* main.rs 627-657 at time now: daily reset, then the drawdown cutoff.
\* ev.resets counts the resets made since the start of the run.
DayCheck ==
    /\ pc = "end"
    /\ LET reset == is_daily_reset_time(now)
           m1 == IF reset THEN daily_reset(metrics) ELSE metrics
           cut == drawdown_cutoff(m1)
       IN  /\ metrics' = IF cut THEN [m1 EXCEPT !.trading_enabled = FALSE] ELSE m1
           /\ ev' = [op |-> "end", reset |-> reset, alert |-> cut,
                     resets |-> ev.resets + (IF reset THEN 1 ELSE 0)]
           /\ alerts' = (IF reset THEN 0 ELSE alerts) + (IF cut THEN 1 ELSE 0)
    /\ pc' = "sleep"
    /\ UNCHANGED <<idx, positions, pending, now, cycles,
                   candle_buf, prefetch, rest, feed, lock>>

\* main.rs 659 and the work of the next iteration up to its line 627
DaySleep ==
    /\ pc = "sleep"
    /\ now < DayEnd
    /\ \E work \in WorkTimes : now' = now + CYCLE_SLEEP + work
    /\ ev' = [ev EXCEPT !.op = "sleep"]
    /\ pc' = "end"
    /\ UNCHANGED <<idx, positions, metrics, pending, cycles,
                   candle_buf, prefetch, rest, feed, lock, alerts>>

NextDay ==
    \/ DayCheck
    \/ DaySleep

SpecDay == InitDay /\ [][NextDay]_vars

\* C22: on every UTC day the daily reset is performed exactly once, by the
\* first cycle that runs after 00:00 UTC, whatever the cycle takes beyond its
\* 60 seconds: no reset before midnight, and one reset made once a cycle has
\* run after midnight.
C22_DailyResetOnce ==
    pc = "sleep" =>
        /\ now < DAY => ev.resets = 0
        /\ now >= DAY => ev.resets = 1

----------------------------------------------------------------------------
\* The feed task (main.rs 89-93): reconnect_with_backoff around connect.
\* feed.pc is "connect" before a call of connect, "session" while the session
\* it opened is running, "failed" once reconnect_with_backoff has returned Err.
\* connects counts the calls of connect, slept lists the waits in seconds.

\* websocket_handler.rs 121-143: the reasons for which a running session ends
DropReasons == {"ping failed", "closed by server", "stream error", "stream ended"}

\* websocket_handler.rs 190-200 with the 300 s cap left out
reconnect_step_no_cap(f, reason) ==
    LET r == f.retries + 1
    IN  IF r >= WS_MAX_RETRIES
        THEN [f EXCEPT !.pc = "failed", !.retries = r, !.reason = reason]
        ELSE [f EXCEPT !.pc = "connect", !.retries = r, !.reason = reason,
                       !.slept = Append(@, f.delay),
                       !.delay = f.delay * 2]

\* websocket_handler.rs 183-201: the Err arm of reconnect_with_backoff
reconnect_step(f, reason) ==
    LET r == f.retries + 1
    IN  IF r >= WS_MAX_RETRIES
        THEN [f EXCEPT !.pc = "failed", !.retries = r, !.reason = reason]
        ELSE [f EXCEPT !.pc = "connect", !.retries = r, !.reason = reason,
                       !.slept = Append(@, f.delay),
                       !.delay = Min(f.delay * 2, MAX_RECONNECT_DELAY)]

\* websocket_handler.rs 40-61 with the supervisor's counter and delay set back
\* when the connection and the subscription have succeeded
session_opened_resets(f) ==
    [f EXCEPT !.pc = "session", !.retries = 0, !.delay = WS_INITIAL_DELAY_SECS]

\* websocket_handler.rs 40-61: the connection and the subscription succeeded
\* and connect goes on to its message loop; retries and delay, locals of
\* reconnect_with_backoff (lines 178-179), are out of its reach.
session_opened(f) == [f EXCEPT !.pc = "session"]

InitFeed ==
    /\ pc = "start"
    /\ idx = 1
    /\ positions = EmptyMap
    /\ metrics = InitMetrics
    /\ pending = <<>>
    /\ now = 0
    /\ cycles = 0
    /\ ev = NoEv
    /\ candle_buf = <<>>
    /\ prefetch = NoPrefetch
    /\ rest = NoRest
    /\ feed = NoFeed
    /\ lock = "none"
    /\ alerts = 0

\* websocket_handler.rs 40-61 called from line 182: connect_async and the
\* subscription either succeed, and the session runs, or fail, and connect
\* returns the error to reconnect_with_backoff.
FeedConnect ==
    /\ feed.pc = "connect"
    /\ \E ok \in BOOLEAN :
         LET f == [feed EXCEPT !.connects = @ + 1]
         IN  feed' = IF ok THEN session_opened(f)
                     ELSE reconnect_step(f, "connect failed")
    /\ UNCHANGED <<pc, idx, positions, metrics, pending, now, cycles, ev,
                   candle_buf, prefetch, rest, lock, alerts>>

\* websocket_handler.rs 121-143: the session ends, connect returns Err with
\* the reason and reconnect_with_backoff handles it (lines 183-201).
FeedSessionEnd ==
    /\ feed.pc = "session"
    /\ \E reason \in DropReasons : feed' = reconnect_step(feed, reason)
    /\ UNCHANGED <<pc, idx, positions, metrics, pending, now, cycles, ev,
                   candle_buf, prefetch, rest, lock, alerts>>

NextFeed ==
    \/ FeedConnect
    \/ FeedSessionEnd

SpecFeed == InitFeed /\ [][NextFeed]_vars

\* C21: after a session has ended or a connection attempt has failed, the
\* supervisor waits before it connects again; the first wait is 5 s, each
\* further one is twice the one before up to 300 s, and after 20 calls of
\* connect have ended the feed task has ended with an error, never before.
C21_Backoff ==
    /\ feed.connects <= WS_MAX_RETRIES
    /\ feed.pc = "failed" <=> feed.retries = WS_MAX_RETRIES
    /\ feed.pc = "failed" => feed.connects = WS_MAX_RETRIES
    /\ Len(feed.slept) = IF feed.pc = "failed" THEN WS_MAX_RETRIES - 1 ELSE feed.retries
    /\ \A i \in 1..Len(feed.slept) :
         feed.slept[i] = IF i = 1 THEN WS_INITIAL_DELAY_SECS
                         ELSE Min(2 * feed.slept[i - 1], MAX_RECONNECT_DELAY)

C21_Witness ==
    /\ feed.pc = "failed"
    /\ feed.reason \in DropReasons
    /\ feed.slept[1] = 5
    /\ feed.slept[2] = 10
    /\ feed.slept[7] = 300
    /\ feed.slept[19] = 300

----------------------------------------------------------------------------
\* The three users of the Candle Store mutex, step by step.  lock names the
\* task that holds candle_map's mutex.  A task is suspended when it waits at
\* an await: the feed for the next message (feed.pc = "session"), the prefetch
\* task for fetch_klines (prefetch.pc = "pending"), the orchestrator anywhere
\* in its iteration after the snapshot (pc = "symbols").  The tasks run on the
\* runtime's worker threads, so their steps interleave freely.

LockTasks == {"feed", "prefetch", "orchestrator"}

\* main.rs 120-122 moved: the lock taken before fetch_klines is awaited
prefetch_locks_before_fetch(p) == p.pc = "pending"

\* main.rs 120-122: the prefetch task locks in the Ok arm, after the await
prefetch_locks(p) == p.pc = "fetched"

Suspended(task) ==
    CASE task = "feed" -> feed.pc = "session"
      [] task = "prefetch" -> prefetch.pc = "pending"
      [] task = "orchestrator" -> pc = "symbols"

InitLock ==
    /\ pc = "start"
    /\ idx = 1
    /\ positions = EmptyMap
    /\ metrics = InitMetrics
    /\ pending = <<>>
    /\ now = StoreStart
    /\ cycles = 0
    /\ ev = [op |-> "init", snapshot |-> <<>>]
    /\ candle_buf = <<>>
    /\ prefetch = NoPrefetch
    /\ rest = NoRest
    /\ feed = [NoFeed EXCEPT !.pc = "session", !.connects = 1]
    /\ lock = "none"
    /\ alerts = 0

\* websocket_handler.rs 77-96: read.next() yields a kline message
LockFeedRecv ==
    /\ feed.pc = "session"
    /\ feed' = [feed EXCEPT !.pc = "message"]
    /\ UNCHANGED <<pc, idx, positions, metrics, pending, now, cycles, ev,
                   candle_buf, prefetch, rest, lock, alerts>>

\* websocket_handler.rs 98: candle_map.lock()
LockFeedAcquire ==
    /\ feed.pc = "message"
    /\ lock = "none"
    /\ lock' = "feed"
    /\ UNCHANGED <<pc, idx, positions, metrics, pending, now, cycles, ev,
                   candle_buf, prefetch, rest, feed, alerts>>

\* websocket_handler.rs 99-116: the write, and the guard dropped at the end
\* of the block; the loop then awaits the next message
LockFeedWrite ==
    /\ feed.pc = "message"
    /\ lock = "feed"
    /\ \E ts \in {0, now}, close \in Closes :
         LET candle == Kline(ts, close)
         IN  candle_buf' = IF candle.timestamp = 0 THEN candle_buf
                           ELSE append_or_replace(candle_buf, candle)
    /\ lock' = "none"
    /\ feed' = [feed EXCEPT !.pc = "session"]
    /\ UNCHANGED <<pc, idx, positions, metrics, pending, now, cycles, ev,
                   prefetch, rest, alerts>>

\* main.rs 120: the await of fetch_klines completes, with candles or an error
LockPrefetchFetch ==
    /\ prefetch.pc = "pending"
    /\ \E ok \in BOOLEAN :
         prefetch' = IF ok THEN [pc |-> "fetched",
                                 klines |-> fetch_klines(now, PREFETCH_LIMIT)]
                     ELSE [pc |-> "done", klines |-> <<>>]
    /\ UNCHANGED <<pc, idx, positions, metrics, pending, now, cycles, ev,
                   candle_buf, rest, feed, lock, alerts>>

\* main.rs 123: candle_map.lock()
LockPrefetchAcquire ==
    /\ prefetch_locks(prefetch)
    /\ lock = "none"
    /\ lock' = "prefetch"
    /\ UNCHANGED <<pc, idx, positions, metrics, pending, now, cycles, ev,
                   candle_buf, prefetch, rest, feed, alerts>>

\* main.rs 124-128: the seeding, and the guard dropped at the end of the block
LockPrefetchSeed ==
    /\ prefetch.pc = "fetched"
    /\ lock = "prefetch"
    /\ candle_buf' = seed(candle_buf, prefetch.klines)
    /\ prefetch' = [pc |-> "done", klines |-> <<>>]
    /\ lock' = "none"
    /\ UNCHANGED <<pc, idx, positions, metrics, pending, now, cycles, ev,
                   rest, feed, alerts>>

\* main.rs 191: candle_map.lock()
LockSnapshotAcquire ==
    /\ pc = "start"
    /\ lock = "none"
    /\ lock' = "orchestrator"
    /\ UNCHANGED <<pc, idx, positions, metrics, pending, now, cycles, ev,
                   candle_buf, prefetch, rest, feed, alerts>>

\* main.rs 192-195: the copy, and the guard dropped at the end of the block
LockSnapshot ==
    /\ pc = "start"
    /\ lock = "orchestrator"
    /\ ev' = [op |-> "snapshot", snapshot |-> candle_buf]
    /\ lock' = "none"
    /\ pc' = "symbols"
    /\ UNCHANGED <<idx, positions, metrics, pending, now, cycles,
                   candle_buf, prefetch, rest, feed, alerts>>

\* main.rs 198-659: the rest of the iteration, with its awaits and the sleep
LockCycleRest ==
    /\ pc = "symbols"
    /\ pc' = "start"
    /\ ev' = [ev EXCEPT !.op = "cycle"]
    /\ UNCHANGED <<idx, positions, metrics, pending, now, cycles,
                   candle_buf, prefetch, rest, feed, lock, alerts>>

NextLock ==
    \/ LockFeedRecv
    \/ LockFeedAcquire
    \/ LockFeedWrite
    \/ LockPrefetchFetch
    \/ LockPrefetchAcquire
    \/ LockPrefetchSeed
    \/ LockSnapshotAcquire
    \/ LockSnapshot
    \/ LockCycleRest

SpecLock == InitLock /\ [][NextLock]_vars

\* C27: the task that holds the Candle Store mutex is never suspended at an
\* await: it is the feed between receiving a message and awaiting the next,
\* the prefetch task after its fetch has returned, or the orchestrator at the
\* top of its loop, so the holder's releasing step never waits for anything.
C27_NoLockAcrossAwait ==
    /\ lock \in LockTasks \cup {"none"}
    /\ lock \in LockTasks => ~Suspended(lock)
    /\ lock = "feed" => feed.pc = "message"
    /\ lock = "prefetch" => prefetch.pc = "fetched"
    /\ lock = "orchestrator" => pc = "start"

\* the orchestrator holds the lock while the feed has a message to write and
\* the prefetch task has candles to seed: both wait for the snapshot only
C27_Witness ==
    /\ lock = "orchestrator"
    /\ feed.pc = "message"
    /\ prefetch.pc = "fetched"
    /\ Len(candle_buf) > 0

----------------------------------------------------------------------------
\* The orchestrator followed over consecutive iterations of its loop, from
\* the state the startup reconciliation leaves (main.rs 96-110).

RunCycles == 2

\* what GET /v5/position/list reports at startup: nothing, or the long
\* position on the first pair, or long positions on both pairs
RunExchange ==
    LET buy == CHOOSE info \in ExchInfos : info.side = "Buy"
    IN  {EmptyMap,
         [sym \in {trading_pairs[1]} |-> buy],
         [sym \in Symbols |-> buy]}

InitRun ==
    /\ pc = "start"
    /\ idx = 1
    /\ positions \in {reconcile_positions(EmptyMap, TRUE, x) : x \in RunExchange}
    /\ metrics = InitMetrics
    /\ pending = <<>>
    /\ now = 0
    /\ cycles = MaxCycles - RunCycles
    /\ ev = NoEv
    /\ candle_buf = <<>>
    /\ prefetch = NoPrefetch
    /\ rest = NoRest
    /\ feed = NoFeed
    /\ lock = "none"
    /\ alerts = 0

NextRun ==
    \/ CycleStart
    \/ SkipSymbol
    \/ ManagePosition
    \/ ScanEntry
    \/ PlaceOrders
    \/ NoPending
    \/ EndCycle
    \/ Sleep

SpecRun == InitRun /\ [][NextRun]_vars

----------------------------------------------------------------------------
\* The loop together with the end of the feed task.  The feed task is detached
\* (tokio::spawn, main.rs 89): when reconnect_with_backoff returns its error
\* the closure logs it and the task ends; nobody awaits its handle.

\* every session of the feed ends until reconnect_with_backoff gives up
RECURSIVE feed_run(_)
feed_run(f) ==
    IF f.pc = "failed" THEN f
    ELSE feed_run(reconnect_step([f EXCEPT !.connects = @ + 1], "stream ended"))

\* the error of the feed task ends the process
feed_failure_exits(p) == "stop"

\* main.rs 89-93: unwrap_or_else(|e| log::error!(..)); the orchestrator's
\* position is what it was
feed_failure(p) == p

FeedFails ==
    /\ feed.pc # "failed"
    /\ pc # "stop"
    /\ feed' = feed_run(feed)
    /\ pc' = feed_failure(pc)
    /\ UNCHANGED <<idx, positions, metrics, pending, now, cycles, ev,
                   candle_buf, prefetch, rest, lock, alerts>>

\* one whole iteration, and the start of the one after it
InitLive ==
    /\ pc = "start"
    /\ idx = 1
    /\ positions \in {reconcile_positions(EmptyMap, TRUE, x) : x \in RunExchange}
    /\ metrics = InitMetrics
    /\ pending = <<>>
    /\ now = 0
    /\ cycles = MaxCycles - 1
    /\ ev = NoEv
    /\ candle_buf = <<>>
    /\ prefetch = NoPrefetch
    /\ rest = NoRest
    /\ feed = NoFeed
    /\ lock = "none"
    /\ alerts = 0

NextLive ==
    \/ NextRun
    \/ FeedFails

\* The orchestrator task keeps being polled and each of its awaits completes:
\* the exchange requests have a 10 s timeout and a retry budget
\* (bybit_api.rs 101-104, 60-97), the sleep lasts 60 s.
SpecLive == InitLive /\ [][NextLive]_vars /\ WF_vars(NextRun)

----------------------------------------------------------------------------
\* The short side with Bollinger bands, from the signal to the close

\* the entry pushed by the step, when it pushed one
PushedEntry == pending'[Len(pending')]

PushedSell ==
    /\ pc = "symbols"
    /\ Len(pending') > Len(pending)
    /\ PushedEntry.side = "Sell"

\* a placed short carries the levels of its signal; a short whose target is
\* reached and whose stop is not hit gets the close call with reason
\* 'TP1 reached', and when the call succeeds it is removed with a profit
ShortPlacedAndClosed ==
    /\ pc = "place" =>
         \A sym \in ev'.okSyms :
           \A i \in 1..Len(pending) :
             (pending[i].symbol = sym /\ pending[i].side = "Sell") =>
                /\ sym \in DOMAIN positions'
                /\ positions'[sym].side = "Sell"
                /\ positions'[sym].take_profit_1 = pending[i].sig.take_profit_1
                /\ positions'[sym].stop_loss = pending[i].sig.stop_loss
    /\ (/\ pc = "symbols"
        /\ ev'.op = "manage"
        /\ ev'.side = "Sell"
        /\ ev'.candle.close <= ev'.take_profit_1
        /\ ev'.candle.close < ev'.stop_loss) =>
          /\ ev'.reason = "TP1 reached"
          /\ ev'.closeCalled
          /\ ev'.closeOk => (ev'.pnl > 0 /\ ev'.sym \notin DOMAIN positions')

----------------------------------------------------------------------------
\* Counters and sums of RiskMetrics

\* C39: in every reachable state wins_today <= trades_today, also after a
\* position imported by the reconciliation, or opened before the last daily
\* reset, was closed at a profit.
C39_WinsWithinTrades == metrics.wins_today <= metrics.trades_today

\* C35: when the position fetch before the placement fails, the exchange is
\* counted as holding no position, and place_order is called for the first
\* pending orders, as many as the local map has free slots.
C35_FailedCountPlaces ==
    [][(pc = "place" /\ ev'.op = "place" /\ ~ev'.fetchOk) =>
         /\ ev'.fetches = 1
         /\ ev'.exchange_open = 0
         /\ Len(ev'.calls) = Min(Len(pending), slots_available(positions))
         /\ \A i \in 1..Len(ev'.calls) : ev'.calls[i] = pending[i].symbol]_vars

\* the fetch failed with two orders pending and one free slot: the first
\* order was sent and its position is open
C35_Witness ==
    /\ pc = "end"
    /\ ev.op = "place"
    /\ ev.fetches = 1
    /\ ~ev.fetchOk
    /\ Len(pending) = 2
    /\ Len(ev.calls) = 1
    /\ ev.okSyms = {pending[1].symbol}
    /\ pending[1].symbol \in DOMAIN positions

----------------------------------------------------------------------------
\* One cycle with both pairs free and part of the daily budget used up
\* (main.rs 248-608): the symbol loop, then the placement.

InitBudget ==
    /\ pc = "symbols"
    /\ idx = 1
    /\ positions = EmptyMap
    /\ metrics \in {[InitMetrics EXCEPT !.daily_pnl = d] : d \in PipelinePnls}
    /\ pending = <<>>
    /\ now = 0
    /\ cycles = 1
    /\ ev = [NoEv EXCEPT !.op = "start"]
    /\ candle_buf = <<>>
    /\ prefetch = NoPrefetch
    /\ rest = NoRest
    /\ feed = NoFeed
    /\ lock = "none"
    /\ alerts = 0

NextBudget ==
    \/ SkipSymbol
    \/ ScanEntry
    \/ PlaceOrders
    \/ NoPending

SpecBudget == InitBudget /\ [][NextBudget]_vars

\* risk_amount summed over the pending orders whose position was opened
RECURSIVE PlacedRisk(_, _)
PlacedRisk(pend, ok) ==
    IF pend = <<>> THEN 0
    ELSE (IF Head(pend).symbol \in ok THEN Head(pend).sig.risk_amount ELSE 0)
         + PlacedRisk(Tail(pend), ok)

\* C37: the risk_amount of the orders placed in one cycle sums to no more
\* than the remaining daily budget max_daily_loss - |daily_pnl| of that
\* cycle, also with two signals on different symbols.
C37_CycleRiskWithinBudget ==
    (pc = "end" /\ ev.op = "place") =>
        PlacedRisk(pending, ev.okSyms) <= max_daily_loss - Abs(metrics.daily_pnl)

\* unrealized_pnl summed over the open local positions
RECURSIVE UnrealizedSum(_, _)
UnrealizedSum(pos, syms) ==
    IF syms = {} THEN 0
    ELSE LET sym == CHOOSE x \in syms : TRUE
         IN  pos[sym].unrealized_pnl + UnrealizedSum(pos, syms \ {sym})

\* C38: at the end of every cycle current_equity is account_balance plus the
\* unrealized_pnl of all open local positions together.
C38_EquityIsBalancePlusUnrealized ==
    pc = "sleep" =>
        metrics.current_equity
            = metrics.account_balance + UnrealizedSum(positions, DOMAIN positions)

\* the signals main.rs 419-441 can build for the symbol in the account state
\* m: every zone, price, ATR and band reading
BuiltSignals(symbol, m, ts) ==
    UNION {{sized_signal(symbol, fvg, current_price, atr, bb, m, ts) :
               fvg \in (detect_bullish_fvg(current_price)
                           \cup detect_bearish_fvg(current_price)) \ {NoFvg},
               atr \in ATRs, bb \in BBs} :
           current_price \in Prices}

\* C36: in every reachable account state, a signal sized by
\* calculate_position_size, with risk_amount recomputed from that size, is
\* rejected by validate_trade neither for its per-trade risk nor for the
\* daily budget.
C36_SizedSignalPassesRiskChecks ==
    pc = "symbols" =>
        \A sig \in BuiltSignals(trading_pairs[idx], metrics, now) :
            validate_trade(sig, metrics)
                \notin {"risk exceeds max", "insufficient daily budget"}

----------------------------------------------------------------------------
\* Orders on the exchange

\* C33: one call of place_order, made for one validated signal, never has
\* more than one order-create request carried out by the exchange, whatever
\* happened to the responses.
C33_AtMostOneOrder ==
    rest.op = "place_order" => rest.served <= 1

----------------------------------------------------------------------------
\* The feed task with its sessions streaming: the supervisor of SpecFeed and
\* the session's message loop writing the candle buffer.

InitStream ==
    /\ pc = "start"
    /\ idx = 1
    /\ positions = EmptyMap
    /\ metrics = InitMetrics
    /\ pending = <<>>
    /\ now = StoreStart
    /\ cycles = 0
    /\ ev = NoEv
    /\ candle_buf = <<>>
    /\ prefetch = NoPrefetch
    /\ rest = NoRest
    /\ feed = NoFeed
    /\ lock = "none"
    /\ alerts = 0

NextStream ==
    \/ FeedConnect
    \/ FeedSessionEnd
    \/ LockFeedRecv
    \/ LockFeedAcquire
    \/ LockFeedWrite

SpecStream == InitStream /\ [][NextStream]_vars

\* the calls of connect that have returned
SessionEnds ==
    feed.connects - (IF feed.pc \in {"session", "message"} THEN 1 ELSE 0)

\* C34: a session that connects and streams leaves the supervisor's counter
\* and delay as they were: neither ever goes down, the counter is the number
\* of calls of connect that have ended since the task was spawned, the task
\* ends exactly when the 20th of them ends, and once it has ended neither
\* the feed nor the candle buffer changes again.
C34_NoResetThenSilence ==
    [][/\ feed.retries = SessionEnds
       /\ (feed.pc = "connect" /\ feed'.pc = "session") =>
            /\ feed'.retries = feed.retries
            /\ feed'.delay = feed.delay
       /\ feed'.retries >= feed.retries
       /\ feed'.delay >= feed.delay
       /\ (feed.pc # "failed" /\ feed'.pc = "failed") =>
            feed'.retries = WS_MAX_RETRIES
       /\ feed'.retries = WS_MAX_RETRIES => feed'.pc = "failed"
       /\ feed.pc = "failed" => (feed' = feed /\ candle_buf' = candle_buf)]_vars

\* the task has ended on a dropped session after sessions that streamed
\* candles into the buffer
C34_Witness ==
    /\ feed.pc = "failed"
    /\ feed.reason \in DropReasons
    /\ feed.connects = WS_MAX_RETRIES
    /\ Len(candle_buf) > 0

----------------------------------------------------------------------------
\* The FVG detector on candles (fvg_detector.rs 195-312).  Sequences are
\* 1-based: the source's candles[j] is candles[j + 1] here, and c1 is named by
\* its index i = j + 1.  An average is kept as the sum and the count it is
\* taken over, and a comparison with mult times the average is made by cross
\* multiplication.

VOL_AVG_PERIOD == 20

BB_PERIOD == 20

RECURSIVE SumVolume(_, _, _)
SumVolume(candles, from, to) ==
    IF from > to THEN 0
    ELSE candles[from].volume + SumVolume(candles, from + 1, to)

RECURSIVE SumClose(_, _, _)
SumClose(candles, from, to) ==
    IF from > to THEN 0
    ELSE candles[from].close + SumClose(candles, from + 1, to)

\* fvg_detector.rs 321-325
avg_volume(candles, period) ==
    LET n == Min(Len(candles), period)
    IN  [sum |-> SumVolume(candles, Len(candles) - n + 1, Len(candles)), n |-> n]

\* main.rs 395-396: the last 20 volumes summed and divided by 20
avg_volume_15m(candles) ==
    LET n == Min(Len(candles), VOL_AVG_PERIOD)
    IN  [sum |-> SumVolume(candles, Len(candles) - n + 1, Len(candles)),
         n |-> VOL_AVG_PERIOD]

\* volume > avg * p.min_vol_mult (an average over no candle is 0.0)
VolumeExceeds(volume, avg, p) ==
    IF avg.n = 0 THEN volume > 0
    ELSE volume * avg.n * 10 > avg.sum * p.min_vol_mult

\* fvg_detector.rs 18-22: the middle band, None below `period` candles
bb_middle(candles, period) ==
    IF Len(candles) < period THEN [some |-> FALSE, sum |-> 0, n |-> period]
    ELSE [some |-> TRUE,
          sum |-> SumClose(candles, Len(candles) - period + 1, Len(candles)),
          n |-> period]

\* fvg_detector.rs 204 and 229: unwrap_or(0.0), closes are positive
AboveMiddle(close, mid) == ~mid.some \/ close * mid.n > mid.sum

\* fvg_detector.rs 259 and 283: unwrap_or(f64::MAX)
BelowMiddle(close, mid) == ~mid.some \/ close * mid.n < mid.sum

\* fvg_detector.rs 213-216 without the colour of the impulse candle
impulse_bullish_any_colour(c2, gap, imp_vol, p) ==
    /\ gap * 1000 > c2.close * p.min_gap_pct
    /\ VolumeExceeds(c2.volume, imp_vol, p)

\* fvg_detector.rs 213-216: the gap is wide enough and c2 is a green candle
\* on raised volume
impulse_bullish(c2, gap, imp_vol, p) ==
    /\ gap * 1000 > c2.close * p.min_gap_pct
    /\ c2.close > c2.open
    /\ VolumeExceeds(c2.volume, imp_vol, p)

\* fvg_detector.rs 268-271
impulse_bearish(c2, gap, imp_vol, p) ==
    /\ gap * 1000 > c2.close * p.min_gap_pct
    /\ c2.close < c2.open
    /\ VolumeExceeds(c2.volume, imp_vol, p)

\* fvg_detector.rs 222-223 with the whole zone height as tolerance
retested_bullish_full_height(candles, i, zone_low, zone_high) ==
    \E k \in (i + 3)..Len(candles) :
        candles[k].low <= zone_high + (zone_high - zone_low)

\* fvg_detector.rs 222-223: candles[j + 3..] is every candle after c3, the
\* current one included
retested_bullish(candles, i, zone_low, zone_high) ==
    \E k \in (i + 3)..Len(candles) :
        2 * candles[k].low <= 2 * zone_high + (zone_high - zone_low)

\* fvg_detector.rs 276-277
retested_bearish(candles, i, zone_low, zone_high) ==
    \E k \in (i + 3)..Len(candles) :
        2 * candles[k].high >= 2 * zone_low - (zone_high - zone_low)

\* fvg_detector.rs 203 and 207: j in search_start..(n - 2), as indexes of c1
SearchWindow(candles, p) ==
    LET n == Len(candles)
    IN  (Max(0, n - (p.fvg_lookback + 2)) + 1)..(n - 2)

\* fvg_detector.rs 233-241 and 287-295
FvgZone(fvg_type, zone_low, zone_high, c2) ==
    [some |-> TRUE, fvg_type |-> fvg_type, zone_high |-> zone_high,
     zone_low |-> zone_low, impulse_high |-> c2.high, impulse_low |-> c2.low,
     created_timestamp |-> c2.timestamp, is_filled |-> FALSE]

\* fvg_detector.rs 208-231: the candidate at c1 = candles[i] passes
BullishAt(candles, i, p) ==
    LET n == Len(candles)
        current == candles[n]
        c1 == candles[i]
        c2 == candles[i + 1]
        c3 == candles[i + 2]
        imp_vol == avg_volume(SubSeq(candles, 1, i + 1), VOL_AVG_PERIOD)
    IN  /\ c3.low > c1.high
        /\ impulse_bullish(c2, c3.low - c1.high, imp_vol, p)
        /\ retested_bullish(candles, i, c1.high, c3.low)
        /\ current.close > c3.low
        /\ AboveMiddle(current.close, bb_middle(candles, BB_PERIOD))
        /\ VolumeExceeds(current.volume, avg_volume(candles, VOL_AVG_PERIOD), p)

\* fvg_detector.rs 262-285
BearishAt(candles, i, p) ==
    LET n == Len(candles)
        current == candles[n]
        c1 == candles[i]
        c2 == candles[i + 1]
        c3 == candles[i + 2]
        imp_vol == avg_volume(SubSeq(candles, 1, i + 1), VOL_AVG_PERIOD)
    IN  /\ c1.low > c3.high
        /\ impulse_bearish(c2, c1.low - c3.high, imp_vol, p)
        /\ retested_bearish(candles, i, c3.high, c1.low)
        /\ current.close < c3.high
        /\ BelowMiddle(current.close, bb_middle(candles, BB_PERIOD))
        /\ VolumeExceeds(current.volume, avg_volume(candles, VOL_AVG_PERIOD), p)

\* fvg_detector.rs 195-245: the first candidate of the window that passes
bullish_fvg(candles, p) ==
    LET J == {i \in SearchWindow(candles, p) : BullishAt(candles, i, p)}
    IN  IF Len(candles) < p.fvg_lookback + 3 \/ J = {} THEN NoFvg
        ELSE LET i == CHOOSE i \in J : \A k \in J : i <= k
             IN  FvgZone("Bullish", candles[i].high, candles[i + 2].low,
                         candles[i + 1])

\* fvg_detector.rs 250-299
bearish_fvg(candles, p) ==
    LET J == {i \in SearchWindow(candles, p) : BearishAt(candles, i, p)}
    IN  IF Len(candles) < p.fvg_lookback + 3 \/ J = {} THEN NoFvg
        ELSE LET i == CHOOSE i \in J : \A k \in J : i <= k
             IN  FvgZone("Bearish", candles[i + 2].high, candles[i].low,
                         candles[i + 1])

\* fvg_detector.rs 301-312
fvg_breakout(fvg, current_candle, avg, p) ==
    IF fvg.fvg_type = "Bullish"
    THEN current_candle.close > fvg.zone_high
         /\ VolumeExceeds(current_candle.volume, avg, p)
    ELSE current_candle.close < fvg.zone_low
         /\ VolumeExceeds(current_candle.volume, avg, p)

\* Entry-timeframe candles the feed may deliver, by shape: a quiet candle, a
\* green and a red impulse on raised volume, a candle that leaves a gap above
\* (below) the quiet candle's range, a breakout candle that stays clear of
\* the zone, and a breakout candle whose wick comes back to it.
CandleShapes ==
    [flat       |-> [open |-> 1000, high |-> 1000, low |-> 1000, close |-> 1000, volume |-> 10],
     up_impulse |-> [open |-> 1000, high |-> 1040, low |-> 1000, close |-> 1040, volume |-> 40],
     up_hold    |-> [open |-> 1040, high |-> 1045, low |-> 1020, close |-> 1040, volume |-> 10],
     up_clear   |-> [open |-> 1040, high |-> 1060, low |-> 1035, close |-> 1050, volume |-> 40],
     up_wick    |-> [open |-> 1040, high |-> 1060, low |-> 1025, close |-> 1050, volume |-> 40],
     dn_impulse |-> [open |-> 1000, high |-> 1000, low |-> 960, close |-> 960, volume |-> 40],
     dn_hold    |-> [open |-> 960, high |-> 980, low |-> 955, close |-> 960, volume |-> 10],
     dn_clear   |-> [open |-> 960, high |-> 965, low |-> 940, close |-> 950, volume |-> 40],
     dn_wick    |-> [open |-> 960, high |-> 975, low |-> 940, close |-> 950, volume |-> 40]]

Candle(shape, ts) ==
    [timestamp |-> ts, open |-> CandleShapes[shape].open,
     high |-> CandleShapes[shape].high, low |-> CandleShapes[shape].low,
     close |-> CandleShapes[shape].close, volume |-> CandleShapes[shape].volume]

\* the shapes that follow the quiet candles
TailShapes == DOMAIN CandleShapes \ {"flat"}

\* quiet candles in the buffer when the moves begin
QuietLens == {7, 11, 19}

\* candles delivered after the quiet ones
MaxTail == 4

Biases == {"Bullish", "Bearish"}

\* the candles of the buffer that are not quiet ones
Moves(candles) == {t \in 1..Len(candles) : candles[t] # Candle("flat", t)}

InitDetect ==
    /\ pc = "start"
    /\ idx = 1
    /\ positions = EmptyMap
    /\ metrics = InitMetrics
    /\ pending = <<>>
    /\ now = 0
    /\ cycles = 0
    /\ ev = [op |-> "init", symbol |-> "", bias |-> "Neutral", some |-> FALSE,
             fvg |-> NoFvg, breakout |-> FALSE]
    /\ \E k \in QuietLens : candle_buf = [t \in 1..k |-> Candle("flat", t)]
    /\ prefetch = NoPrefetch
    /\ rest = NoRest
    /\ feed = NoFeed
    /\ lock = "none"
    /\ alerts = 0

\* websocket_handler.rs 99-116: a candle of the entry timeframe with a new
\* timestamp is appended to the buffer
DetectPush ==
    /\ pc = "start"
    /\ \E shape \in TailShapes :
         candle_buf' = Append(candle_buf, Candle(shape, Len(candle_buf) + 1))
    /\ Cardinality(Moves(candle_buf)) < MaxTail
    /\ ev' = [ev EXCEPT !.op = "push", !.some = FALSE, !.fvg = NoFvg,
                        !.breakout = FALSE]
    /\ UNCHANGED <<pc, idx, positions, metrics, pending, now, cycles,
                   prefetch, rest, feed, lock, alerts>>

\* The detector of the bias direction applied to the candles held, of any
\* number, and the breakout check of main.rs 394-420 on what it returns; the
\* orchestrator reaches that check with 20 candles or more (main.rs 260-263).
DetectFvg ==
    /\ pc = "start"
    /\ \E symbol \in Symbols, bias \in Biases :
         LET p == symbol_params(symbol)
             fvg == IF bias = "Bullish" THEN bullish_fvg(candle_buf, p)
                    ELSE bearish_fvg(candle_buf, p)
             last_15m == candle_buf[Len(candle_buf)]
         IN  ev' = [op |-> "detect", symbol |-> symbol, bias |-> bias,
                    some |-> fvg.some, fvg |-> fvg,
                    breakout |-> /\ Len(candle_buf) >= 20
                                 /\ fvg.some
                                 /\ fvg_breakout(fvg, last_15m,
                                                 avg_volume_15m(candle_buf), p)]
    /\ UNCHANGED <<pc, idx, positions, metrics, pending, now, cycles,
                   candle_buf, prefetch, rest, feed, lock, alerts>>

NextDetect ==
    \/ DetectPush
    \/ DetectFvg

SpecDetect == InitDetect /\ [][NextDetect]_vars

\* the zone the detector returned is the one of c1 = candles[i]
ZoneFrom(fvg, candles, i) ==
    /\ fvg.created_timestamp = candles[i + 1].timestamp
    /\ fvg.impulse_high = candles[i + 1].high
    /\ fvg.impulse_low = candles[i + 1].low
    /\ fvg.fvg_type = "Bullish" =>
         /\ fvg.zone_low = candles[i].high
         /\ fvg.zone_high = candles[i + 2].low
    /\ fvg.fvg_type = "Bearish" =>
         /\ fvg.zone_low = candles[i + 2].high
         /\ fvg.zone_high = candles[i].low

\* C31: a zone the bullish detector returns is [c1.high, c3.low] of three
\* consecutive candles among the last fvg_lookback + 2, with zone_low <
\* zone_high and c2 green; a zone the bearish detector returns is
\* [c3.high, c1.low] of such candles with c2 red; and neither returns a zone
\* from fewer than fvg_lookback + 3 candles.
C31_ZoneFromThreeCandles ==
    ev.op = "detect" =>
        LET n == Len(candle_buf)
            p == symbol_params(ev.symbol)
        IN  /\ n < p.fvg_lookback + 3 => ~ev.some
            /\ ev.some =>
                 /\ ev.fvg.fvg_type = ev.bias
                 /\ ev.fvg.zone_low < ev.fvg.zone_high
                 /\ \E i \in 1..(n - 2) :
                      /\ i > n - (p.fvg_lookback + 2)
                      /\ ZoneFrom(ev.fvg, candle_buf, i)
                      /\ ev.bias = "Bullish" =>
                           candle_buf[i + 1].close > candle_buf[i + 1].open
                      /\ ev.bias = "Bearish" =>
                           candle_buf[i + 1].close < candle_buf[i + 1].open

\* a bullish zone returned from exactly fvg_lookback + 3 candles
C31_Witness ==
    /\ ev.op = "detect"
    /\ ev.some
    /\ ev.bias = "Bullish"
    /\ Len(candle_buf) = symbol_params(ev.symbol).fvg_lookback + 3
    /\ ev.fvg.zone_low = 1000
    /\ ev.fvg.zone_high = 1020

\* the retest, the close and the volume of the claim for the zone of
\* c1 = candles[i], the retest looked for among candles[from..to]
Confirmed(fvg, candles, i, from, to, p) ==
    LET current == candles[Len(candles)]
        height == fvg.zone_high - fvg.zone_low
    IN  /\ VolumeExceeds(current.volume, avg_volume(candles, VOL_AVG_PERIOD), p)
        /\ fvg.fvg_type = "Bullish" =>
             /\ \E k \in from..to : 2 * candles[k].low <= 2 * fvg.zone_high + height
             /\ current.close > fvg.zone_high
        /\ fvg.fvg_type = "Bearish" =>
             /\ \E k \in from..to : 2 * candles[k].high >= 2 * fvg.zone_low - height
             /\ current.close < fvg.zone_low

\* C32 as stated: a returned zone was touched, within half its height, by a
\* candle between c3 and the current candle, the current close is beyond the
\* zone and the current volume is above min_vol_mult times the average.
C32_RetestBetween ==
    (ev.op = "detect" /\ ev.some) =>
        \E i \in 1..(Len(candle_buf) - 2) :
            /\ ZoneFrom(ev.fvg, candle_buf, i)
            /\ Confirmed(ev.fvg, candle_buf, i, i + 3, Len(candle_buf) - 1,
                         symbol_params(ev.symbol))

\* C32: a returned zone was touched, within half its height, by a candle
\* after c3, the current candle included; the current close is strictly
\* beyond the zone in the trade direction and the current volume is above
\* min_vol_mult times the average volume of the last 20 candles; a signal is
\* built only when check_fvg_breakout agrees on close and volume.
C32_RetestUpToCurrent ==
    (ev.op = "detect" /\ ev.some) =>
        /\ \E i \in 1..(Len(candle_buf) - 2) :
             /\ ZoneFrom(ev.fvg, candle_buf, i)
             /\ Confirmed(ev.fvg, candle_buf, i, i + 3, Len(candle_buf),
                          symbol_params(ev.symbol))
        /\ ev.breakout =>
             VolumeExceeds(candle_buf[Len(candle_buf)].volume,
                           avg_volume_15m(candle_buf), symbol_params(ev.symbol))

\* a bearish zone confirmed by a current candle that is its own retest, with
\* 20 candles behind the averages
C32_Witness ==
    /\ ev.op = "detect"
    /\ ev.some
    /\ ev.breakout
    /\ ev.bias = "Bearish"
    /\ Len(candle_buf) > VOL_AVG_PERIOD
    /\ ev.fvg.created_timestamp = Len(candle_buf) - 2

====
